---- MODULE Spec2Model ----
(***************************************************************************)
(* perlcov: parallel test execution with isolated coverage directories,    *)
(* TAP failure detection, in-process merge of run records and              *)
(* normalisation of the merged report.                                     *)
(*                                                                         *)
(* Text that the code inspects character by character (test output,        *)
(* normalisation mode lists) is a sequence of one-character strings.       *)
(* Text that the code only builds and compares (paths, arguments) is a     *)
(* TLA+ string.  Go slices are 0-based, TLA+ sequences 1-based: index i    *)
(* of the code is element i + 1 here.                                      *)
(***************************************************************************)
EXTENDS Integers, Sequences, FiniteSets, TLC

VARIABLES
    \* ---- cli.runCoverage / runner.Runner ----
    cfg,            \* Config: Jobs, NoRerunFailed, CoverDir
    testFiles,      \* discovered test files, in input order
    pc,             \* position of runCoverage
    pass,           \* 0 none, 1 RunTests, 2 RunTestsWithoutCoverage
    input,          \* testFiles argument of the running Run* call
    jobs,           \* the closed channel of indices still queued
    wpc,            \* per worker: position of the goroutine
    widx,           \* per worker: index i taken from the channel
    wres,           \* per worker: local variable result
    mu,             \* mutex holder (0 = free)
    completed,      \* progress counter
    passed,         \* progress counter
    results,        \* results slice of the running Run* call
    firstResults,   \* results returned by RunTests
    failedTests,    \* getFailedTests(results)
    rerunResults,   \* results returned by RunTestsWithoutCoverage
    procs,          \* every test process ever spawned
    inflight,       \* test processes spawned and not yet exited
    runCount,       \* per pass and index: number of processes spawned
    overtook,       \* a first-pass result was stored before one of a lower index
    out,            \* what was printed, in order
    err,            \* error returned by runCoverage ("" = nil)
    hung,           \* first-pass indices whose test process never exits
    \* ---- runner.runSingleTest on one process outcome ----
    tapIn,          \* exit status and standard output of the process
    tapRes,         \* the TestResult built from it
    \* ---- coverage.mergeRunsGo / Report.Normalize ----
    allRuns,        \* [][]singleRunData
    structures,     \* per file: statement position -> line number
    mpc,            \* "idle", "input", "parsed"
    data,           \* the *runCoverageData returned by mergeRunsGo
    report,         \* the *Report built by ParseCoverageDB
    normCount,      \* number of Normalize calls applied
    \* ---- coverage.parseAllRunsJSON: the database on disk ----
    runsDir,        \* the entries of <coverDir>/runs
    structDir,      \* the entries of <coverDir>/structure
    \* ---- coverage.PrintReport ----
    printed,        \* the rows printed, in order
    \* ---- coverage.ParseNormalizationModes on one input ----
    modesIn,        \* the --normalize value
    modesRes,       \* the (config, error) returned
    \* ---- runner.extractModuleFromTestFile on one path ----
    modIn,          \* the test file path
    modOut,         \* the module name returned
    \* ---- runner.runSingleTest: the arguments of one perl process ----
    selIn,          \* the runner's options, the test file, the files that exist
    selArgs,        \* the arguments built
    \* ---- coverage.ParseCoverageDB: the choice of the merge path ----
    pdbIn,          \* jsonMerge, what exists on disk, what the external tool does
    isJSON,         \* local variable isJSON
    execs           \* the external commands run, in order

vars == <<cfg, testFiles, pc, pass, input, jobs, wpc, widx, wres, mu,
          completed, passed, results, firstResults, failedTests,
          rerunResults, procs, inflight, runCount, overtook, out, err, hung,
          tapIn, tapRes, allRuns, structures, mpc, data, report, normCount,
          runsDir, structDir, printed, modesIn, modesRes, modIn, modOut,
          selIn, selArgs, pdbIn, isJSON, execs>>

runnerVars == <<cfg, testFiles, pc, pass, input, jobs, wpc, widx, wres, mu,
                completed, passed, results, firstResults, failedTests,
                rerunResults, procs, inflight, runCount, overtook, out,
                err, hung>>

tapVars == <<tapIn, tapRes>>

mergeVars == <<allRuns, structures, mpc, data, report, normCount>>

diskVars == <<runsDir, structDir>>

modesVars == <<modesIn, modesRes>>

moduleVars == <<modIn, modOut>>

selectVars == <<selIn, selArgs>>

formatVars == <<pdbIn, isJSON, execs>>

sideVars == <<diskVars, printed, modesVars, moduleVars, selectVars,
              formatVars>>

----------------------------------------------------------------------------
(* Bounds *)

MaxTests == 3
MaxJobs == 2
MaxLines == 2
MaxRuns == 3
MaxNormRuns == 2
MaxNormalize == 2
MaxTokens == 2
MaxStem == 4
MaxRunDirs == 2
MaxHangTests == 2
MaxExisting == 1

----------------------------------------------------------------------------
(* strings package, on sequences of one-character strings *)

Range(s) == {s[k] : k \in 1..Len(s)}

Max(a, b) == IF a >= b THEN a ELSE b

\* unicode.IsSpace for the characters that occur
IsSpace(c) == c \in {" ", "\t", "\n", "\r"}

HasPrefix(s, p) ==
    /\ Len(s) >= Len(p)
    /\ SubSeq(s, 1, Len(p)) = p

\* strings.Index: 0-based position of the first occurrence, -1 if none
RECURSIVE IndexFrom(_, _, _)
IndexFrom(s, p, k) ==
    IF k + Len(p) > Len(s) THEN -1
    ELSE IF SubSeq(s, k + 1, k + Len(p)) = p THEN k
    ELSE IndexFrom(s, p, k + 1)

Index(s, p) == IndexFrom(s, p, 0)

Contains(s, p) == Index(s, p) >= 0

RECURSIVE TrimLeft(_)
TrimLeft(s) ==
    IF s # <<>> /\ IsSpace(Head(s)) THEN TrimLeft(Tail(s)) ELSE s

RECURSIVE TrimRight(_)
TrimRight(s) ==
    IF s # <<>> /\ IsSpace(s[Len(s)])
    THEN TrimRight(SubSeq(s, 1, Len(s) - 1)) ELSE s

\* mode = strings.TrimSpace(mode): a plausible slip compares the raw token
notTrimmed(s) == s

TrimSpace(s) == TrimRight(TrimLeft(s))

\* strings.Split(s, sep) for a one-character separator
RECURSIVE Split(_, _)
Split(s, sep) ==
    LET k == Index(s, <<sep>>) IN
    IF k < 0 THEN <<s>>
    ELSE <<SubSeq(s, 1, k)>> \o Split(SubSeq(s, k + 2, Len(s)), sep)

\* strconv: the decimal digits of a non-negative int, as fmt's %d prints it
Digit(d) == CASE d = 0 -> "0" [] d = 1 -> "1" [] d = 2 -> "2" [] d = 3 -> "3"
              [] d = 4 -> "4" [] d = 5 -> "5" [] d = 6 -> "6" [] d = 7 -> "7"
              [] d = 8 -> "8" [] d = 9 -> "9"

RECURSIVE Itoa(_)
Itoa(n) == IF n < 10 THEN Digit(n) ELSE Itoa(n \div 10) \o Digit(n % 10)

\* the same digits as a sequence of characters
RECURSIVE FormatInt(_)
FormatInt(n) ==
    IF n < 10 THEN <<Digit(n)>> ELSE Append(FormatInt(n \div 10), Digit(n % 10))

DigitValue(c) == CHOOSE d \in 0..9 : Digit(d) = c

\* fmt.Sscanf(s, "%d", &line) on a sequence of digits
RECURSIVE ScanInt(_)
ScanInt(ds) ==
    IF ds = <<>> THEN 0
    ELSE 10 * ScanInt(SubSeq(ds, 1, Len(ds) - 1)) + DigitValue(ds[Len(ds)])

----------------------------------------------------------------------------
(* runner.containsTAPFailure *)

NotOk == <<"n", "o", "t", " ", "o", "k">>
BailOut == <<"B", "a", "i", "l", " ", "o", "u", "t", "!">>
Todo == <<"#", " ", "T", "O", "D", "O">>
Skip == <<"#", " ", "S", "K", "I", "P">>

\* the body of the loop over the lines, from line k on
RECURSIVE tapFailureFrom(_, _)
tapFailureFrom(lines, k) ==
    IF k > Len(lines) THEN FALSE
    ELSE LET line == TrimSpace(lines[k]) IN
         IF HasPrefix(line, NotOk)
            /\ ~Contains(line, Todo) /\ ~Contains(line, Skip)
         THEN TRUE
         ELSE IF HasPrefix(line, BailOut) THEN TRUE
         ELSE tapFailureFrom(lines, k + 1)

\* a plausible slip: the marker is searched anywhere in the line
RECURSIVE tapFailureAnywhereFrom(_, _)
tapFailureAnywhereFrom(lines, k) ==
    IF k > Len(lines) THEN FALSE
    ELSE LET line == TrimSpace(lines[k]) IN
         IF Contains(line, NotOk)
            /\ ~Contains(line, Todo) /\ ~Contains(line, Skip)
         THEN TRUE
         ELSE IF Contains(line, BailOut) THEN TRUE
         ELSE tapFailureAnywhereFrom(lines, k + 1)

containsTAPFailureAnywhere(output) ==
    tapFailureAnywhereFrom(Split(output, "\n"), 1)

containsTAPFailure(output) == tapFailureFrom(Split(output, "\n"), 1)

----------------------------------------------------------------------------
(* runner.runSingleTest *)

Cwd == "/w"

CoverDirs == {"cover_db", "/tmp/cov"}

\* fmt.Sprintf("%s_%d", r.CoverDir, i): a plausible slip drops the index
sharedCoverDir(coverDir, i) == coverDir

isolatedCoverDir(coverDir, i) == coverDir \o "_" \o Itoa(i)

\* filepath.IsAbs, over the paths that occur
IsAbs(p) ==
    p \in {"/tmp/cov"} \cup {isolatedCoverDir("/tmp/cov", i) : i \in 0..MaxTests}

Join(a, b) == a \o "/" \o b

absPath(p) == IF IsAbs(p) THEN p ELSE Join(Cwd, p)

\* absCoverDir of runSingleTest
absCoverDirOf(rCoverDir, coverDir) ==
    absPath(IF coverDir = "" THEN rCoverDir ELSE coverDir)

\* the arguments of the perl process (include paths and source roots are
\* empty, no scope narrowing)
testArgs(rCoverDir, testFile, withCoverage, coverDir) ==
    (IF withCoverage
     THEN <<"-MDevel::Cover=-db," \o absCoverDirOf(rCoverDir, coverDir)
              \o ",-silent,1,-ignore,^t/,-ignore,\\.t$">>
     ELSE <<>>)
    \o <<absPath(testFile)>>

\* the TestResult built once cmd.Run() has returned: exit = 0 is err == nil
testResult(rCoverDir, testFile, withCoverage, coverDir, exit, stdout, stderr) ==
    [File     |-> testFile,
     Output   |-> stdout,
     CoverDir |-> IF withCoverage THEN absCoverDirOf(rCoverDir, coverDir)
                  ELSE "",
     Passed   |-> IF exit # 0 THEN FALSE ELSE ~containsTAPFailure(stdout),
     Error    |-> IF exit # 0
                  THEN (IF stderr = <<>> THEN stdout ELSE stderr)
                  ELSE IF containsTAPFailure(stdout) THEN stdout ELSE <<>>]

\* the fields of TestResult that the callers read
Slim(r) == [File |-> r.File, Passed |-> r.Passed, CoverDir |-> r.CoverDir]

ZeroResult == [File |-> "", Passed |-> FALSE, CoverDir |-> ""]

----------------------------------------------------------------------------
(* coverage.ParseNormalizationModes *)

NormalizeConditionsToBranches ==
    <<"c", "o", "n", "d", "i", "t", "i", "o", "n", "s", "-", "t", "o", "-", "b", "r", "a", "n", "c", "h", "e", "s">>

NormalizeSubroutinesToStatements ==
    <<"s", "u", "b", "r", "o", "u", "t", "i", "n", "e", "s", "-", "t", "o", "-", "s", "t", "a", "t", "e", "m", "e", "n", "t", "s">>

NormalizeSonarQube == <<"s", "o", "n", "a", "r", "q", "u", "b", "e">>

NormalizeSimple == <<"s", "i", "m", "p", "l", "e">>

\* &NormalizationConfig{}
EmptyConfig ==
    [nil |-> FALSE, Modes |-> <<>>, ConditionsToBranch |-> FALSE,
     SubroutinesToStmt |-> FALSE, SonarQubeStyle |-> FALSE,
     SimpleMode |-> FALSE]

\* the nil *NormalizationConfig
NilConfig == [EmptyConfig EXCEPT !.nil = TRUE]

\* the loop over the modes, from token k on; a result is <<config, err>>
RECURSIVE parseModesFrom(_, _, _)
parseModesFrom(modes, k, config) ==
    IF k > Len(modes) THEN <<config, FALSE>>
    ELSE LET mode == TrimSpace(modes[k]) IN
         IF mode = NormalizeConditionsToBranches
         THEN parseModesFrom(modes, k + 1,
                  [config EXCEPT !.ConditionsToBranch = TRUE,
                                 !.Modes = Append(@, "conditions-to-branches")])
         ELSE IF mode = NormalizeSubroutinesToStatements
         THEN parseModesFrom(modes, k + 1,
                  [config EXCEPT !.SubroutinesToStmt = TRUE,
                                 !.Modes = Append(@, "subroutines-to-statements")])
         ELSE IF mode = NormalizeSonarQube
         THEN parseModesFrom(modes, k + 1,
                  [config EXCEPT !.SonarQubeStyle = TRUE,
                                 !.ConditionsToBranch = TRUE,
                                 !.Modes = Append(@, "sonarqube")])
         ELSE IF mode = NormalizeSimple
         THEN parseModesFrom(modes, k + 1,
                  [config EXCEPT !.SimpleMode = TRUE,
                                 !.Modes = Append(@, "simple")])
         ELSE <<NilConfig, TRUE>>

ParseNormalizationModes(in) ==
    IF in = <<>> THEN <<EmptyConfig, FALSE>>
    ELSE parseModesFrom(Split(in, ","), 1, EmptyConfig)

----------------------------------------------------------------------------
(* cli.runCoverage, runner.RunTests, runner.RunTestsWithoutCoverage *)

Workers == 1..MaxJobs

TestFileNames == <<"t/a.t", "t/b.t", "t/a.t", "t/c.t", "t/d.t">>

\* the lists of discovered test files: the same file may be named twice
TestLists == {SubSeq(TestFileNames, 1, n) : n \in 0..MaxTests}

\* --normalize values: absent, a valid list, a list with a malformed name
NormalizeInputs ==
    {<<>>,
     NormalizeSimple,
     NormalizeSonarQube \o <<",">> \o <<"b", "o", "g", "u", "s">>}

\* process outcomes: standard output of a passing and of a failing run
OkOutput == <<"o", "k", " ", "1">>

RunOutputs == {OkOutput, NotOk \o <<" ", "1">>}

Event(kind) == [kind |-> kind, passed |-> 0, failed |-> 0, total |-> 0]

Counts(kind, p, f, t) == [kind |-> kind, passed |-> p, failed |-> f, total |-> t]

Kinds(o) == {o[k].kind : k \in 1..Len(o)}

\* make([]TestResult, len(testFiles))
ZeroResults(n) == [k \in 1..n |-> ZeroResult]

\* the channel filled with 0 .. n-1 and closed
FilledJobs(n) == [k \in 1..n |-> k - 1]

\* a plausible slip: the passed tests are collected
RECURSIVE getPassedTests(_)
getPassedTests(res) ==
    IF res = <<>> THEN <<>>
    ELSE (IF Head(res).Passed THEN <<Head(res).File>> ELSE <<>>)
         \o getPassedTests(Tail(res))

\* a plausible slip: every test is collected
RECURSIVE getAllTests(_)
getAllTests(res) ==
    IF res = <<>> THEN <<>>
    ELSE <<Head(res).File>> \o getAllTests(Tail(res))

RECURSIVE getFailedTests(_)
getFailedTests(res) ==
    IF res = <<>> THEN <<>>
    ELSE (IF ~Head(res).Passed THEN <<Head(res).File>> ELSE <<>>)
         \o getFailedTests(Tail(res))

\* if result.CoverDir != "" { ... }: a plausible slip collects the directory
\* of every result
RECURSIVE allDirsOf(_)
allDirsOf(res) ==
    IF res = <<>> THEN <<>> ELSE <<Head(res).CoverDir>> \o allDirsOf(Tail(res))

\* the isolated directories collected from the results
RECURSIVE isolatedDirsOf(_)
isolatedDirsOf(res) ==
    IF res = <<>> THEN <<>>
    ELSE (IF Head(res).CoverDir # "" THEN <<Head(res).CoverDir>> ELSE <<>>)
         \o isolatedDirsOf(Tail(res))

\* results[i] = result; a plausible slip stores in completion order
storeByCompletion(res, i, n, result) == [res EXCEPT ![n + 1] = result]

storeResult(res, i, n, result) == [res EXCEPT ![i + 1] = result]

TestsFailedError(n) == Itoa(n) \o " test(s) failed"

\* runCoverage from "--- Coverage Report ---" to its return; a plausible
\* slip returns the test failure before anything is printed
reportTailFailFirst(o, failed, total, normalize, html, parseOK, htmlOK) ==
    IF Len(failed) > 0
    THEN [out |-> o, err |-> TestsFailedError(Len(failed))]
    ELSE [out |-> o \o <<Event("CoverageHeader"), Event("CoverageReport"),
                         Counts("Summary", total, 0, total)>>,
          err |-> ""]

reportTail(o, failed, total, normalize, html, parseOK, htmlOK) ==
    LET o1 == Append(o, Event("CoverageHeader"))
        o2 == Append(o1, Event("CoverageReport"))
        o3 == IF html THEN Append(o2, Event("HTMLWarning")) ELSE o2
        o4 == IF html THEN Append(o3, Event("HTMLGenerated")) ELSE o3
        o5 == Append(o4, Counts("Summary", total - Len(failed), Len(failed),
                                total))
    IN IF ~parseOK
       THEN [out |-> o1, err |-> "failed to parse coverage"]
       ELSE IF normalize # <<>> /\ ParseNormalizationModes(normalize)[2]
       THEN [out |-> o1, err |-> "invalid --normalize value"]
       ELSE IF html /\ ~htmlOK
       THEN [out |-> o3, err |-> "failed to generate HTML report"]
       ELSE IF Len(failed) > 0
       THEN [out |-> o5, err |-> TestsFailedError(Len(failed))]
       ELSE [out |-> o5, err |-> ""]

\* a plausible slip waits for the first worker only
firstWorkerDone == \E w \in Workers : wpc[w] = "done"

\* wg.Wait() returns
PoolDone == \A w \in Workers : wpc[w] \in {"none", "done"}

\* for w := 0; w < r.Jobs; w++ { go func() ... }: a plausible slip starts a
\* goroutine per test file
poolPerTest(j, n) == n

\* the number of goroutines started
poolSize(j, n) == j

\* if result.Passed { passed++ }: a plausible slip counts every completion
countEvery(p, result) == p + 1

countPassed(p, result) == IF result.Passed THEN p + 1 ELSE p

\* results, the closed channel and r.Jobs goroutines of a Run* call
StartPool(p, files) ==
    /\ pass' = p
    /\ input' = files
    /\ results' = ZeroResults(Len(files))
    /\ jobs' = FilledJobs(Len(files))
    /\ completed' = 0
    /\ passed' = 0
    /\ mu' = 0
    /\ wpc' = [w \in Workers |->
                 IF w <= poolSize(cfg.Jobs, Len(files)) THEN "recv" ELSE "none"]
    /\ widx' = [w \in Workers |-> 0]
    /\ wres' = [w \in Workers |-> ZeroResult]

poolVars == <<pass, input, results, jobs, completed, passed, mu, wpc, widx, wres>>

\* runCoverage is entered: nothing has run
StartOfRunCoverage ==
    /\ pc = "start"
    /\ pass = 0
    /\ input = <<>>
    /\ jobs = <<>>
    /\ wpc = [w \in Workers |-> "none"]
    /\ widx = [w \in Workers |-> 0]
    /\ wres = [w \in Workers |-> ZeroResult]
    /\ mu = 0
    /\ completed = 0
    /\ passed = 0
    /\ results = <<>>
    /\ firstResults = <<>>
    /\ failedTests = <<>>
    /\ rerunResults = <<>>
    /\ procs = {}
    /\ inflight = {}
    /\ runCount = [p \in 1..2 |-> [k \in 1..MaxTests |-> 0]]
    /\ overtook = FALSE
    /\ out = <<>>
    /\ err = ""

\* any concurrency level: the loop that starts the workers runs no round
\* for r.Jobs <= 0
InitRunner ==
    /\ cfg \in [Jobs : (-1)..MaxJobs, NoRerunFailed : BOOLEAN,
                CoverDir : CoverDirs]
    /\ testFiles \in TestLists
    /\ hung = {}
    /\ StartOfRunCoverage

IdleTap == tapIn = [exit |-> 0, stdout |-> <<>>, stderr |-> <<>>] /\ tapRes = <<>>

IdleMerge ==
    /\ allRuns = <<>>
    /\ structures = <<>>
    /\ mpc = "idle"
    /\ data = [Files |-> <<>>]
    /\ report = [Files |-> <<>>, Summary |-> <<>>]
    /\ normCount = 0

NoDir == [readable |-> FALSE, entries |-> <<>>]

IdleDisk == runsDir = NoDir /\ structDir = NoDir

IdlePrint == printed = <<>>

IdleModes == modesIn = <<>> /\ modesRes = <<>>

IdleModule == modIn = <<>> /\ modOut = <<>>

IdleSelect == selIn = <<>> /\ selArgs = <<>>

IdleFormat == pdbIn = <<>> /\ isJSON = FALSE /\ execs = <<>>

IdleSide ==
    IdleDisk /\ IdlePrint /\ IdleModes /\ IdleModule /\ IdleSelect /\ IdleFormat

Init == InitRunner /\ IdleTap /\ IdleMerge /\ IdleSide

\* CheckDevelCover, discoverTests and the cleaning fail: runCoverage returns
SetupFails ==
    /\ pc = "start"
    /\ \E e \in {"Devel::Cover is not installed", "failed to discover tests",
                 "failed to clean coverage directory"} : err' = e
    /\ pc' = "exit"
    /\ UNCHANGED <<cfg, hung, testFiles, poolVars, firstResults, failedTests,
                   rerunResults, procs, inflight, runCount, overtook, out>>
    /\ UNCHANGED <<tapVars, mergeVars, sideVars>>

NoTestFiles ==
    /\ pc = "start"
    /\ Len(testFiles) = 0
    /\ err' = "no test files found"
    /\ pc' = "exit"
    /\ UNCHANGED <<cfg, hung, testFiles, poolVars, firstResults, failedTests,
                   rerunResults, procs, inflight, runCount, overtook, out>>
    /\ UNCHANGED <<tapVars, mergeVars, sideVars>>

\* runCoverage up to the point where RunTests has started its goroutines
StartRunTests ==
    /\ pc = "start"
    /\ Len(testFiles) > 0
    /\ out' = Append(out, Counts("Found", 0, 0, Len(testFiles)))
    /\ StartPool(1, testFiles)
    /\ pc' = "RunTests"
    /\ UNCHANGED <<cfg, hung, testFiles, firstResults, failedTests, rerunResults,
                   procs, inflight, runCount, overtook, err>>
    /\ UNCHANGED <<tapVars, mergeVars, sideVars>>

\* for i := range jobs: an index is received and its perl process started
WorkerTake(w) ==
    /\ wpc[w] = "recv"
    /\ jobs # <<>>
    /\ LET i == Head(jobs)
           dir == IF pass = 1 THEN isolatedCoverDir(cfg.CoverDir, i) ELSE ""
           p == [pass |-> pass, i |-> i, file |-> input[i + 1],
                 dir |-> dir,
                 db |-> IF pass = 1 THEN absCoverDirOf(cfg.CoverDir, dir) ELSE "",
                 args |-> testArgs(cfg.CoverDir, input[i + 1], pass = 1, dir)]
       IN /\ jobs' = Tail(jobs)
          /\ widx' = [widx EXCEPT ![w] = i]
          /\ procs' = procs \cup {p}
          /\ inflight' = inflight \cup {[p |-> p, w |-> w]}
          /\ runCount' = [runCount EXCEPT ![pass][i + 1] = @ + 1]
    /\ UNCHANGED overtook
    /\ wpc' = [wpc EXCEPT ![w] = "run"]
    /\ UNCHANGED <<cfg, hung, testFiles, pc, pass, input, wres, mu, completed,
                   passed, results, firstResults, failedTests, rerunResults,
                   out, err>>
    /\ UNCHANGED <<tapVars, mergeVars, sideVars>>

\* cmd.Run() returns, unless the process never exits, and runSingleTest
\* builds the result
WorkerRun(w) ==
    /\ wpc[w] = "run"
    /\ ~(pass = 1 /\ widx[w] \in hung)
    /\ \E exit \in {0, 1}, stdout \in RunOutputs :
         LET i == widx[w]
             dir == IF pass = 1 THEN isolatedCoverDir(cfg.CoverDir, i) ELSE ""
         IN wres' = [wres EXCEPT ![w] =
                Slim(testResult(cfg.CoverDir, input[i + 1], pass = 1, dir,
                                exit, stdout, <<>>))]
    /\ inflight' = {f \in inflight : f.w # w}
    /\ wpc' = [wpc EXCEPT ![w] = "lock"]
    /\ UNCHANGED <<cfg, hung, testFiles, pc, pass, input, jobs, widx, mu, completed,
                   passed, results, firstResults, failedTests, rerunResults,
                   procs, runCount, overtook, out, err>>
    /\ UNCHANGED <<tapVars, mergeVars, sideVars>>

\* mu.Lock()
WorkerLock(w) ==
    /\ wpc[w] = "lock"
    /\ mu = 0
    /\ mu' = w
    /\ wpc' = [wpc EXCEPT ![w] = "update"]
    /\ UNCHANGED <<cfg, hung, testFiles, pc, pass, input, jobs, widx, wres,
                   completed, passed, results, firstResults, failedTests,
                   rerunResults, procs, inflight, runCount, overtook, out, err>>
    /\ UNCHANGED <<tapVars, mergeVars, sideVars>>

\* results[i] = result ... mu.Unlock()
WorkerUpdate(w) ==
    /\ wpc[w] = "update"
    /\ LET current == completed + 1
           currentPassed == countPassed(passed, wres[w])
           total == Len(input)
       IN /\ results' = storeResult(results, widx[w], completed, wres[w])
          /\ overtook' = (overtook \/ (pass = 1 /\ \E k \in 1..widx[w] :
                                            results[k] = ZeroResult))
          /\ completed' = current
          /\ passed' = currentPassed
          /\ out' = IF current % 10 = 0 \/ current = total
                    THEN Append(out, Counts("Progress", currentPassed,
                                            current - currentPassed, total))
                    ELSE out
    /\ mu' = 0
    /\ wpc' = [wpc EXCEPT ![w] = "recv"]
    /\ UNCHANGED <<cfg, hung, testFiles, pc, pass, input, jobs, widx, wres,
                   firstResults, failedTests, rerunResults, procs, inflight,
                   runCount, err>>
    /\ UNCHANGED <<tapVars, mergeVars, sideVars>>

\* the channel is closed and empty: the loop ends, wg.Done()
WorkerExit(w) ==
    /\ wpc[w] = "recv"
    /\ jobs = <<>>
    /\ wpc' = [wpc EXCEPT ![w] = "done"]
    /\ UNCHANGED <<cfg, hung, testFiles, pc, pass, input, jobs, widx, wres, mu,
                   completed, passed, results, firstResults, failedTests,
                   rerunResults, procs, inflight, runCount, overtook, out, err>>
    /\ UNCHANGED <<tapVars, mergeVars, sideVars>>

\* RunTests returns; the merge of the isolated directories fails
MergeFails ==
    /\ pc = "RunTests"
    /\ PoolDone
    /\ Len(isolatedDirsOf(results)) > 0
    /\ firstResults' = results
    /\ err' = "failed to merge coverage directories"
    /\ pc' = "exit"
    /\ UNCHANGED <<cfg, hung, testFiles, poolVars, failedTests, rerunResults, procs,
                   inflight, runCount, overtook, out>>
    /\ UNCHANGED <<tapVars, mergeVars, sideVars>>

\* RunTests returns, results are merged and printed, no rerun is due
AfterRunTests ==
    /\ pc = "RunTests"
    /\ PoolDone
    /\ firstResults' = results
    /\ failedTests' = getFailedTests(results)
    /\ ~(Len(getFailedTests(results)) > 0 /\ ~cfg.NoRerunFailed)
    /\ out' = Append(out, Event("TestResults"))
    /\ pc' = "Report"
    /\ UNCHANGED <<cfg, hung, testFiles, poolVars, rerunResults, procs, inflight,
                   runCount, overtook, err>>
    /\ UNCHANGED <<tapVars, mergeVars, sideVars>>

\* ... and RunTestsWithoutCoverage has started its goroutines
StartRerun ==
    /\ pc = "RunTests"
    /\ PoolDone
    /\ firstResults' = results
    /\ failedTests' = getFailedTests(results)
    /\ Len(getFailedTests(results)) > 0 /\ ~cfg.NoRerunFailed
    /\ out' = out \o <<Event("TestResults"), Event("RerunHeader")>>
    /\ StartPool(2, getFailedTests(results))
    /\ pc' = "Rerun"
    /\ UNCHANGED <<cfg, hung, testFiles, rerunResults, procs, inflight, runCount, overtook,
                   err>>
    /\ UNCHANGED <<tapVars, mergeVars, sideVars>>

\* RunTestsWithoutCoverage returns, printRerunResults
AfterRerun ==
    /\ pc = "Rerun"
    /\ PoolDone
    /\ rerunResults' = results
    /\ out' = Append(out, Event("RerunResults"))
    /\ pc' = "Report"
    /\ UNCHANGED <<cfg, hung, testFiles, poolVars, firstResults, failedTests,
                   procs, inflight, runCount, overtook, err>>
    /\ UNCHANGED <<tapVars, mergeVars, sideVars>>

\* the coverage is parsed, normalised and printed; runCoverage returns.
\* cfg.Normalize and cfg.HTML are read here only, and drawn here.
Report ==
    /\ pc = "Report"
    /\ \E normalize \in NormalizeInputs, html \in BOOLEAN,
          parseOK \in BOOLEAN, htmlOK \in BOOLEAN :
         LET t == reportTail(out, failedTests, Len(firstResults), normalize,
                             html, parseOK, htmlOK)
         IN out' = t.out /\ err' = t.err
    /\ pc' = "exit"
    /\ UNCHANGED <<cfg, hung, testFiles, poolVars, firstResults, failedTests,
                   rerunResults, procs, inflight, runCount, overtook>>
    /\ UNCHANGED <<tapVars, mergeVars, sideVars>>

Next ==
    \/ SetupFails
    \/ NoTestFiles
    \/ StartRunTests
    \/ \E w \in Workers : WorkerTake(w)
    \/ \E w \in Workers : WorkerRun(w)
    \/ \E w \in Workers : WorkerLock(w)
    \/ \E w \in Workers : WorkerUpdate(w)
    \/ \E w \in Workers : WorkerExit(w)
    \/ MergeFails
    \/ AfterRunTests
    \/ StartRerun
    \/ AfterRerun
    \/ Report

Spec == Init /\ [][Next]_vars

----------------------------------------------------------------------------
(* Properties of the runner and of runCoverage, checked under Spec *)

FirstPassProcs == {p \in procs : p.pass = 1}

RerunProcs == {p \in procs : p.pass = 2}

FailedFirst == {k \in 1..Len(firstResults) : ~firstResults[k].Passed}

\* C1: for J >= 1, once RunTests has returned, every test file was run
\* exactly once and results[i].File = testFiles[i] for every i, whatever the
\* order in which the workers completed.
C1_ResultsInInputOrder ==
    (cfg.Jobs >= 1 /\ firstResults # <<>>) =>
        /\ Len(firstResults) = Len(testFiles)
        /\ \A k \in 1..Len(testFiles) :
             /\ firstResults[k].File = testFiles[k]
             /\ runCount[1][k] = 1
             /\ \E p \in FirstPassProcs : p.i = k - 1 /\ p.file = testFiles[k]

\* RunTests has returned from two workers and three files, and a result was
\* stored before the result of an earlier file
C1_Witness ==
    /\ cfg.Jobs = 2
    /\ Len(firstResults) = 3
    /\ overtook

\* C2: every instrumented run is given the cover directory suffixed with its
\* own input index; no two runs are ever given the same directory and no
\* directory is in use by two workers.
C2_DistinctIsolatedDirs ==
    /\ \A p \in FirstPassProcs :
         /\ p.dir = cfg.CoverDir \o "_" \o Itoa(p.i)
         /\ p.db \in {p.dir, Cwd \o "/" \o p.dir}
    /\ \A p, q \in FirstPassProcs :
         p # q => (p.dir # q.dir /\ p.db # q.db)
    /\ \A k \in 1..MaxTests : runCount[1][k] <= 1
    /\ \A f, g \in inflight :
         (f.w # g.w /\ f.p.pass = 1 /\ g.p.pass = 1) => f.p.db # g.p.db

\* two instrumented test processes are running at the same time
C2_Witness ==
    \E f, g \in inflight : f.w # g.w /\ f.p.pass = 1 /\ g.p.pass = 1

\* C4: for J >= 1, a rerun process exists only once every first-pass test
\* has completed; the files rerun are exactly the files of the failed
\* first-pass results; a rerun process carries no instrumentation flag and
\* no output location; nothing is rerun when no test failed or rerun is
\* disabled.
C4_RerunAfterFirstPass ==
    /\ RerunProcs # {} =>
         /\ pc \in {"Rerun", "Report", "exit"}
         /\ Len(firstResults) = Len(testFiles)
         /\ \A k \in 1..Len(testFiles) :
              runCount[1][k] = 1 /\ firstResults[k].File = testFiles[k]
         /\ \A f \in inflight : f.p.pass = 2
    /\ \A p \in RerunProcs :
         /\ \E k \in FailedFirst : firstResults[k].File = p.file
         /\ p.dir = "" /\ p.db = ""
         /\ p.args = <<Cwd \o "/" \o p.file>>
    /\ \A k \in 1..Len(rerunResults) : rerunResults[k].CoverDir = ""
    /\ (cfg.Jobs >= 1 /\ rerunResults # <<>>) =>
         \A k \in 1..Len(testFiles) :
            Cardinality({p \in RerunProcs : p.file = testFiles[k]})
              = Cardinality({j \in FailedFirst :
                               firstResults[j].File = testFiles[k]})
    /\ (firstResults # <<>> /\ (FailedFirst = {} \/ cfg.NoRerunFailed)) =>
         (RerunProcs = {} /\ pass = 1 /\ rerunResults = <<>>)

\* the rerun has returned after a first pass in which one test failed and
\* another passed
C4_Witness ==
    /\ cfg.Jobs >= 1
    /\ rerunResults # <<>>
    /\ FailedFirst # {}
    /\ \E k \in 1..Len(firstResults) : firstResults[k].Passed
    /\ pc = "exit"

\* position among the failed tests of the failed first-pass result k
RerunIndex(k) == Cardinality({j \in FailedFirst : j <= k})

\* the test of first-pass result k failed in the last run made of it
UltimatelyFailed(k) ==
    /\ ~firstResults[k].Passed
    /\ rerunResults # <<>> => ~rerunResults[RerunIndex(k)].Passed

C6_ReportBeforeFailure ==
    (pc = "exit" /\ err \in {TestsFailedError(n) : n \in 1..MaxTests}) =>
        \E a, b \in 1..Len(out) :
            /\ a < b
            /\ out[a].kind = "CoverageReport"
            /\ out[b].kind = "Summary"
            /\ out[b].failed = Cardinality(FailedFirst)
            /\ out[b].passed = Len(firstResults) - Cardinality(FailedFirst)
            /\ out[b].total = Len(firstResults)

\* runCoverage has returned the failure of two tests
C6_Witness ==
    /\ cfg.Jobs >= 1
    /\ pc = "exit"
    /\ err = TestsFailedError(2)
    /\ Cardinality(FailedFirst) = 2

\* C7, as claimed: when runCoverage fails on a malformed --normalize value,
\* no test process has been started.
C7_InvalidNormalizeBeforeTests ==
    err = "invalid --normalize value" => procs = {}

----------------------------------------------------------------------------
(* runner.runSingleTest applied to the outcome of one test process *)

\* lines of test output: an optional lead, a failure marker, an optional
\* directive
TapLeads == {<<>>, <<" ">>, <<"x", " ">>}

TapCores == {NotOk, BailOut}

TapDirectives == {<<>>, <<" ">> \o Todo, <<" ">> \o Skip}

\* the marked lines, a passing line and the empty line
TapLines ==
    {a \o b \o c : a \in TapLeads, b \in TapCores, c \in TapDirectives}
        \cup {OkOutput, <<>>}

RECURSIVE JoinLines(_)
JoinLines(ls) ==
    IF ls = <<>> THEN <<>>
    ELSE IF Len(ls) = 1 THEN ls[1]
    ELSE ls[1] \o <<"\n">> \o JoinLines(Tail(ls))

TapOutputs == {JoinLines(ls) : ls \in UNION {[1..n -> TapLines] : n \in 0..MaxLines}}

IdleRunner ==
    /\ cfg = [Jobs |-> 1, NoRerunFailed |-> FALSE, CoverDir |-> "cover_db"]
    /\ testFiles = <<>>
    /\ pc = "idle"
    /\ pass = 0
    /\ input = <<>>
    /\ jobs = <<>>
    /\ wpc = [w \in Workers |-> "none"]
    /\ widx = [w \in Workers |-> 0]
    /\ wres = [w \in Workers |-> ZeroResult]
    /\ mu = 0
    /\ completed = 0
    /\ passed = 0
    /\ results = <<>>
    /\ firstResults = <<>>
    /\ failedTests = <<>>
    /\ rerunResults = <<>>
    /\ procs = {}
    /\ inflight = {}
    /\ runCount = [p \in 1..2 |-> [k \in 1..MaxTests |-> 0]]
    /\ overtook = FALSE
    /\ out = <<>>
    /\ err = ""
    /\ hung = {}

InitTAP ==
    /\ tapIn \in [exit : {0, 1}, stdout : TapOutputs,
                  stderr : {<<>>, <<"d", "i", "e", "d">>}]
    /\ tapRes = <<>>
    /\ IdleRunner
    /\ IdleMerge
    /\ IdleSide

\* cmd.Run() returns with tapIn and the result is built, with or without
\* instrumentation
RunSingleTest ==
    /\ tapRes = <<>>
    /\ \E withCoverage \in BOOLEAN :
         tapRes' = <<testResult(cfg.CoverDir, "t/a.t", withCoverage,
                                IF withCoverage
                                THEN isolatedCoverDir(cfg.CoverDir, 0) ELSE "",
                                tapIn.exit, tapIn.stdout, tapIn.stderr)>>
    /\ UNCHANGED <<tapIn, runnerVars, mergeVars, sideVars>>

NextTAP == RunSingleTest

SpecTAP == InitTAP /\ [][NextTAP]_vars

\* the text s[a..b] is a line of s: it holds no newline and is bounded by
\* newlines or by the ends of s
IsLineOf(s, a, b) ==
    /\ \A k \in a..b : s[k] # "\n"
    /\ a = 1 \/ s[a - 1] = "\n"
    /\ b = Len(s) \/ s[b + 1] = "\n"

\* p occurs in s[a..b] at offset d
OccursAt(s, a, b, p, d) ==
    /\ a + d + Len(p) - 1 <= b
    /\ \A k \in 1..Len(p) : s[a + d + k - 1] = p[k]

\* the line s[a..b], seen from its first non-blank character f on, begins
\* with a failure marker that no directive qualifies
LineFails(s, a, b) ==
    \E f \in a..b :
        /\ \A k \in a..(f - 1) : s[k] = " "
        /\ s[f] # " "
        /\ \/ /\ OccursAt(s, f, b, NotOk, 0)
              /\ ~\E d \in 0..(b - f) : OccursAt(s, f, b, Todo, d)
              /\ ~\E d \in 0..(b - f) : OccursAt(s, f, b, Skip, d)
           \/ OccursAt(s, f, b, BailOut, 0)

\* C3: a result is failed iff the process exited non-zero, or a line of its
\* standard output begins, after trimming, with "not ok" and holds neither
\* "# TODO" nor "# SKIP", or begins with "Bail out!".
C3_FailedIffExitOrTAPFailure ==
    tapRes # <<>> =>
        (tapRes[1].Passed = FALSE
           <=> \/ tapIn.exit # 0
               \/ \E a \in 1..Len(tapIn.stdout), b \in 1..Len(tapIn.stdout) :
                    /\ a <= b
                    /\ IsLineOf(tapIn.stdout, a, b)
                    /\ LineFails(tapIn.stdout, a, b))

\* a passed result whose output holds "not ok" in the middle of a line and
\* no directive
C3_Witness ==
    /\ tapRes # <<>>
    /\ tapRes[1].Passed
    /\ Contains(tapIn.stdout, NotOk)
    /\ ~Contains(tapIn.stdout, Todo)
    /\ ~Contains(tapIn.stdout, Skip)

----------------------------------------------------------------------------
(* coverage.mergeRunsGo *)

\* the source files of the run records, in the order of their paths
FileNames == <<"lib/A.pm", "lib/B.pm">>

ZeroInts(n) == [k \in 1..n |-> 0]

ZeroPairs(n) == [k \in 1..n |-> <<0, 0>>]

\* &mergedFile{...} sized after the first record seen for a file
newMergedFile(r) ==
    [stmt   |-> ZeroInts(Len(r.Statement)),
     branch |-> ZeroPairs(Len(r.Branch)),
     cond   |-> [k \in 1..Len(r.Condition) |-> ZeroInts(Len(r.Condition[k]))],
     sub    |-> ZeroInts(Len(r.Sub))]

\* for len(m.x) < len(r.X) { m.x = append(m.x, 0) }: a plausible slip leaves
\* the slice at the size of the first record
notExtended(v, n) == v

extendInts(v, n) == IF Len(v) < n THEN v \o ZeroInts(n - Len(v)) ELSE v

extendPairs(v, n) == IF Len(v) < n THEN v \o ZeroPairs(n - Len(v)) ELSE v

\* a nil condition vector is the empty sequence
extendConds(v, n) ==
    IF Len(v) < n THEN v \o [k \in 1..(n - Len(v)) |-> <<>>] ELSE v

\* m.x[i] += v: a plausible slip overwrites the count
overwriteCount(a, b) == b

addCount(a, b) == a + b

addInts(m, r) ==
    [k \in 1..Len(m) |-> IF k <= Len(r) THEN addCount(m[k], r[k]) ELSE m[k]]

addPairs(m, r) ==
    [k \in 1..Len(m) |->
        IF k <= Len(r)
        THEN <<addCount(m[k][1], r[k][1]), addCount(m[k][2], r[k][2])>>
        ELSE m[k]]

addConds(m, r) ==
    [k \in 1..Len(m) |->
        IF k <= Len(r) THEN addInts(extendInts(m[k], Len(r[k])), r[k])
        ELSE m[k]]

\* the body of the inner loop: record r is added to merged[r.File]
mergeRecord(merged, r) ==
    LET m == IF r.File \in DOMAIN merged THEN merged[r.File]
             ELSE newMergedFile(r)
        n == [stmt   |-> addInts(extendInts(m.stmt, Len(r.Statement)),
                                 r.Statement),
              branch |-> addPairs(extendPairs(m.branch, Len(r.Branch)),
                                  r.Branch),
              cond   |-> addConds(extendConds(m.cond, Len(r.Condition)),
                                  r.Condition),
              sub    |-> addInts(extendInts(m.sub, Len(r.Sub)), r.Sub)]
    IN [f \in DOMAIN merged \cup {r.File} |->
           IF f = r.File THEN n ELSE merged[f]]

RECURSIVE mergeRun(_, _)
mergeRun(merged, runs) ==
    IF runs = <<>> THEN merged
    ELSE mergeRun(mergeRecord(merged, Head(runs)), Tail(runs))

RECURSIVE mergeAllRuns(_, _)
mergeAllRuns(merged, runLists) ==
    IF runLists = <<>> THEN merged
    ELSE mergeAllRuns(mergeRun(merged, Head(runLists)), Tail(runLists))

RECURSIVE CountPositive(_)
CountPositive(v) ==
    IF v = <<>> THEN 0
    ELSE (IF Head(v) > 0 THEN 1 ELSE 0) + CountPositive(Tail(v))

\* a plausible slip counts a branch position once when either arm was hit
RECURSIVE countHitBranches(_)
countHitBranches(v) ==
    IF v = <<>> THEN 0
    ELSE (IF Head(v)[1] > 0 \/ Head(v)[2] > 0 THEN 1 ELSE 0)
         + countHitBranches(Tail(v))

RECURSIVE CountArms(_)
CountArms(v) ==
    IF v = <<>> THEN 0
    ELSE (IF Head(v)[1] > 0 THEN 1 ELSE 0) + (IF Head(v)[2] > 0 THEN 1 ELSE 0)
         + CountArms(Tail(v))

RECURSIVE CountSlots(_)
CountSlots(v) == IF v = <<>> THEN 0 ELSE Len(Head(v)) + CountSlots(Tail(v))

\* a plausible slip counts a condition position once when any slot was hit
RECURSIVE countHitConditions(_)
countHitConditions(v) ==
    IF v = <<>> THEN 0
    ELSE (IF CountPositive(Head(v)) > 0 THEN 1 ELSE 0)
         + countHitConditions(Tail(v))

RECURSIVE CountPositiveSlots(_)
CountPositiveSlots(v) ==
    IF v = <<>> THEN 0 ELSE CountPositive(Head(v)) + CountPositiveSlots(Tail(v))

\* if i < len(stmtLines) { line = stmtLines[i] }: a plausible slip keeps the
\* default line
defaultLine(stmtLines, k) == k

\* line of statement position k (position k - 1 of the code)
lineOf(stmtLines, k) == IF k <= Len(stmtLines) THEN stmtLines[k] ELSE k

\* the output entry of one merged file
fileOutput(file, m, stmtLines) ==
    [Path       |-> file,
     Statement  |-> [Lines   |-> {FormatInt(lineOf(stmtLines, k)) :
                                    k \in {j \in 1..Len(m.stmt) : ~(m.stmt[j] > 0)}},
                     Covered |-> CountPositive(m.stmt),
                     Total   |-> Len(m.stmt)],
     Branch     |-> [Covered |-> CountArms(m.branch),
                     Total   |-> 2 * Len(m.branch)],
     Condition  |-> [Covered |-> CountPositiveSlots(m.cond),
                     Total   |-> CountSlots(m.cond)],
     Subroutine |-> [Covered |-> CountPositive(m.sub),
                     Total   |-> Len(m.sub)]]

\* the entries of the merged files, sorted by path
RECURSIVE sortedOutputs(_, _, _)
sortedOutputs(merged, structs, k) ==
    IF k > Len(FileNames) THEN <<>>
    ELSE (IF FileNames[k] \in DOMAIN merged
          THEN <<fileOutput(FileNames[k], merged[FileNames[k]],
                            structs[FileNames[k]])>>
          ELSE <<>>)
         \o sortedOutputs(merged, structs, k + 1)

mergeRunsGo(runLists, structs) ==
    [Files |-> sortedOutputs(mergeAllRuns(<<>>, runLists), structs, 1)]

----------------------------------------------------------------------------
(* coverage.ParseCoverageDB (report construction), calculateSummary *)

RECURSIVE GCD(_, _)
GCD(a, b) == IF b = 0 THEN a ELSE GCD(b, a % b)

\* the float64 values of a division by zero: 0/0 and x/0 for x > 0
NaN == <<0, 0>>

Inf == <<1, 0>>

\* float64(covered) / float64(total) * 100 for total > 0, as the fraction
\* 100 * covered / total in lowest terms: two such floats are equal exactly
\* when the fractions are
Pct(covered, total) ==
    IF total = 0 THEN (IF covered = 0 THEN NaN ELSE Inf)
    ELSE LET g == GCD(100 * covered, total)
         IN <<(100 * covered) \div g, total \div g>>

ZeroPct == <<0, 1>>

RECURSIVE SumSeq(_)
SumSeq(v) == IF v = <<>> THEN 0 ELSE Head(v) + SumSeq(Tail(v))

\* sort.Ints on the keys of a set
RECURSIVE SortInts(_)
SortInts(S) ==
    IF S = {} THEN <<>>
    ELSE LET lo == CHOOSE x \in S : \A y \in S : x <= y
         IN <<lo>> \o SortInts(S \ {lo})

ZeroSummary ==
    [Statement |-> ZeroPct, Branch |-> ZeroPct, Condition |-> ZeroPct,
     Subroutine |-> ZeroPct, Combined |-> ZeroPct, TotalFiles |-> 0,
     CoveredFiles |-> 0, Normalized |-> FALSE, ConditionsAbsorbed |-> FALSE,
     SubroutinesAbsorbed |-> FALSE]

EmptyData == [Files |-> <<>>]

EmptyReport == [Files |-> <<>>, Summary |-> ZeroSummary]

\* the FileCoverage built from one entry of the merged data
fileCoverage(f) ==
    [Path        |-> f.Path,
     Statements  |-> [Covered |-> f.Statement.Covered,
                      Total |-> f.Statement.Total, Percent |-> ZeroPct,
                      Uncovered |-> <<>>,
                      lines |-> {ScanInt(l) : l \in f.Statement.Lines}],
     Branches    |-> [Covered |-> f.Branch.Covered, Total |-> f.Branch.Total,
                      Percent |-> ZeroPct],
     Conditions  |-> [Covered |-> f.Condition.Covered,
                      Total |-> f.Condition.Total, Percent |-> ZeroPct],
     Subroutines |-> [Covered |-> f.Subroutine.Covered,
                      Total |-> f.Subroutine.Total, Percent |-> ZeroPct]]

buildReport(d) ==
    [Files   |-> [path \in {d.Files[k].Path : k \in 1..Len(d.Files)} |->
                     fileCoverage(d.Files[CHOOSE k \in 1..Len(d.Files) :
                        /\ d.Files[k].Path = path
                        /\ \A j \in (k + 1)..Len(d.Files) :
                              d.Files[j].Path # path])],
     Summary |-> ZeroSummary]

\* a category with its percentage set when total > 0
withPercent(c) ==
    IF c.Total > 0 THEN [c EXCEPT !.Percent = Pct(c.Covered, c.Total)] ELSE c

\* the files of a report, as a sequence
PathsOf(r) == SelectSeq(FileNames, LAMBDA f : f \in DOMAIN r.Files)

\* totalX += fc.X.Total: a plausible slip assigns, which leaves the counts of
\* the file visited last
lastFileTotals(r) ==
    LET ps == PathsOf(r)
        Last(cat, field) == IF ps = <<>> THEN 0
                            ELSE r.Files[ps[Len(ps)]][cat][field]
    IN [totalStmt     |-> Last("Statements", "Total"),
        coveredStmt   |-> Last("Statements", "Covered"),
        totalBranch   |-> Last("Branches", "Total"),
        coveredBranch |-> Last("Branches", "Covered"),
        totalCond     |-> Last("Conditions", "Total"),
        coveredCond   |-> Last("Conditions", "Covered"),
        totalSub      |-> Last("Subroutines", "Total"),
        coveredSub    |-> Last("Subroutines", "Covered")]

\* the eight sums accumulated over the files
Totals(r) ==
    LET ps == PathsOf(r)
        Col(cat, field) == SumSeq([k \in 1..Len(ps) |-> r.Files[ps[k]][cat][field]])
    IN [totalStmt     |-> Col("Statements", "Total"),
        coveredStmt   |-> Col("Statements", "Covered"),
        totalBranch   |-> Col("Branches", "Total"),
        coveredBranch |-> Col("Branches", "Covered"),
        totalCond     |-> Col("Conditions", "Total"),
        coveredCond   |-> Col("Conditions", "Covered"),
        totalSub      |-> Col("Subroutines", "Total"),
        coveredSub    |-> Col("Subroutines", "Covered")]

\* the five summary percentages, each set when its total is > 0
summaryPercents(sm, t) ==
    [sm EXCEPT
       !.Statement  = IF t.totalStmt > 0
                      THEN Pct(t.coveredStmt, t.totalStmt) ELSE @,
       !.Branch     = IF t.totalBranch > 0
                      THEN Pct(t.coveredBranch, t.totalBranch) ELSE @,
       !.Condition  = IF t.totalCond > 0
                      THEN Pct(t.coveredCond, t.totalCond) ELSE @,
       !.Subroutine = IF t.totalSub > 0
                      THEN Pct(t.coveredSub, t.totalSub) ELSE @,
       !.Combined   = IF t.totalCond + t.totalStmt > 0
                      THEN Pct(t.coveredCond + t.coveredStmt,
                               t.totalCond + t.totalStmt)
                      ELSE @]

calculateSummary(r) ==
    LET files == [f \in DOMAIN r.Files |->
                    [r.Files[f] EXCEPT
                       !.Statements = withPercent(
                           [@ EXCEPT !.Uncovered =
                                SortInts(r.Files[f].Statements.lines)]),
                       !.Branches = withPercent(@),
                       !.Conditions = withPercent(@),
                       !.Subroutines = withPercent(@)]]
        ps == PathsOf(r)
        sm == [r.Summary EXCEPT
                 !.TotalFiles = @ + Len(ps),
                 !.CoveredFiles = @ + Cardinality({f \in DOMAIN r.Files :
                                       r.Files[f].Statements.Covered > 0})]
    IN [Files |-> files, Summary |-> summaryPercents(sm, Totals(r))]

----------------------------------------------------------------------------
(* coverage.Report.Normalize, recalculateSummary *)

\* dst.Total += src.Total; dst.Covered += src.Covered: a plausible slip
\* forgets the total
absorbCoveredOnly(dst, src) ==
    [dst EXCEPT !.Covered = @ + src.Covered]

absorb(dst, src) ==
    [dst EXCEPT !.Total = @ + src.Total, !.Covered = @ + src.Covered]

\* x.Total = 0; x.Covered = 0; x.Percent = 0: a plausible slip leaves the
\* donor category as it was
notZeroed(c) == c

zeroed(c) == [c EXCEPT !.Total = 0, !.Covered = 0, !.Percent = ZeroPct]

\* a plausible slip zeroes the conditions without adding them to the branches
conditionsDropped(fc) == [fc EXCEPT !.Conditions = zeroed(@)]

conditionsToBranches(fc) ==
    [fc EXCEPT !.Branches = withPercent(absorb(@, fc.Conditions)),
               !.Conditions = zeroed(@)]

subroutinesToStatements(fc) ==
    [fc EXCEPT !.Statements = withPercent(absorb(@, fc.Subroutines)),
               !.Subroutines = zeroed(@)]

\* a plausible slip keeps the branches in simple mode
simpleKeepsBranches(fc) ==
    [fc EXCEPT !.Conditions = zeroed(@), !.Subroutines = zeroed(@)]

simpleMode(fc) ==
    [fc EXCEPT !.Branches = zeroed(@), !.Conditions = zeroed(@),
               !.Subroutines = zeroed(@)]

recalculateSummary(r) ==
    LET sm == [r.Summary EXCEPT !.Statement = ZeroPct, !.Branch = ZeroPct,
                                !.Condition = ZeroPct, !.Subroutine = ZeroPct,
                                !.Combined = ZeroPct]
    IN [r EXCEPT !.Summary = summaryPercents(sm, Totals(r))]

\* the body of Normalize after its guard
applyModes(r, config) ==
         LET r1 == [r EXCEPT !.Summary.Normalized = TRUE]
             r2 == IF config.ConditionsToBranch
                   THEN [r1 EXCEPT
                           !.Summary.ConditionsAbsorbed = TRUE,
                           !.Files = [f \in DOMAIN @ |->
                                        conditionsToBranches(@[f])]]
                   ELSE r1
             r3 == IF config.SubroutinesToStmt
                   THEN [r2 EXCEPT
                           !.Summary.SubroutinesAbsorbed = TRUE,
                           !.Files = [f \in DOMAIN @ |->
                                        subroutinesToStatements(@[f])]]
                   ELSE r2
             r4 == IF config.SimpleMode
                   THEN [r3 EXCEPT
                           !.Summary.ConditionsAbsorbed = TRUE,
                           !.Summary.SubroutinesAbsorbed = TRUE,
                           !.Files = [f \in DOMAIN @ |-> simpleMode(@[f])]]
                   ELSE r3
         IN recalculateSummary(r4)

\* if config == nil || len(config.Modes) == 0 { return }: a plausible slip
\* omits the guard
normalizeUnguarded(r, config) == applyModes(r, config)

Normalize(r, config) ==
    IF config.nil \/ Len(config.Modes) = 0 THEN r ELSE applyModes(r, config)

----------------------------------------------------------------------------
(* ParseCoverageDB on decoded run records, followed by Normalize *)

Rec(file, stmt, branch, cond, sub) ==
    [File |-> file, Statement |-> stmt, Branch |-> branch, Condition |-> cond,
     Sub |-> sub]

\* run records of two files: arrays of different lengths, hit and unhit
\* positions, condition vectors of different lengths, empty arrays
RunRecords ==
    {Rec("lib/A.pm", <<1, 0>>, <<<<2, 0>>>>, <<<<1, 0>>>>, <<1>>),
     Rec("lib/A.pm", <<0, 2>>, <<<<0, 1>>>>, <<<<0, 1, 0>>>>, <<0>>),
     Rec("lib/A.pm", <<0, 0, 0>>, <<<<0, 0>>, <<1, 1>>>>, <<<<0, 0>>, <<1>>>>,
         <<0, 0>>),
     Rec("lib/A.pm", <<>>, <<>>, <<>>, <<>>),
     Rec("lib/B.pm", <<0>>, <<<<0, 0>>>>, <<<<0>>>>, <<0>>),
     Rec("lib/B.pm", <<3>>, <<>>, <<<<>>, <<2>>>>, <<>>)}

\* the sequences of exactly n run records
RECURSIVE RecordSeqs(_)
RecordSeqs(n) ==
    IF n = 0 THEN {<<>>}
    ELSE {<<r>> \o t : r \in RunRecords, t \in RecordSeqs(n - 1)}

\* the lists of non-empty runs holding n records together
RECURSIVE RunListsOf(_)
RunListsOf(n) ==
    IF n = 0 THEN {<<>>}
    ELSE UNION {{<<run>> \o rest : run \in RecordSeqs(j),
                                   rest \in RunListsOf(n - j)} : j \in 1..n}

RunLists(max) == UNION {RunListsOf(n) : n \in 0..max}

\* structure files: one line per position, and two positions on one line
\* with the later positions (and the other file) without a line
StructureMaps ==
    {[f \in Range(FileNames) |-> IF f = "lib/A.pm" THEN <<10, 20, 30>> ELSE <<5>>],
     [f \in Range(FileNames) |-> IF f = "lib/A.pm" THEN <<7, 7>> ELSE <<>>]}

\* the configurations Normalize is called with: nil, and the parse of every
\* list of distinct mode names
ModeNames ==
    <<NormalizeConditionsToBranches, NormalizeSubroutinesToStatements,
      NormalizeSonarQube, NormalizeSimple>>

RECURSIVE JoinComma(_)
JoinComma(ls) ==
    IF ls = <<>> THEN <<>>
    ELSE IF Len(ls) = 1 THEN ls[1]
    ELSE ls[1] \o <<",">> \o JoinComma(Tail(ls))

ModeInputs ==
    {JoinComma(SelectSeq(ModeNames, LAMBDA m : m \in S)) :
        S \in SUBSET Range(ModeNames)}

NormConfigs == {ParseNormalizationModes(in)[1] : in \in ModeInputs} \cup {NilConfig}

InitParse(max) ==
    /\ allRuns \in RunLists(max)
    /\ structures \in StructureMaps
    /\ mpc = "input"
    /\ data = EmptyData
    /\ report = EmptyReport
    /\ normCount = 0
    /\ IdleRunner
    /\ IdleTap
    /\ IdleSide

InitMerge == InitParse(MaxRuns)

InitNorm == InitParse(MaxNormRuns)

\* ParseCoverageDB from the merge of the decoded runs to its return
ParseCoverageDB ==
    /\ mpc = "input"
    /\ LET merged == mergeRunsGo(allRuns, structures)
       IN /\ data' = merged
          /\ report' = calculateSummary(buildReport(merged))
    /\ mpc' = "parsed"
    /\ UNCHANGED <<allRuns, structures, normCount, runnerVars, tapVars,
                 sideVars>>

\* report.Normalize(config)
NormalizeReport ==
    /\ mpc = "parsed"
    /\ normCount < MaxNormalize
    /\ \E config \in NormConfigs : report' = Normalize(report, config)
    /\ normCount' = normCount + 1
    /\ UNCHANGED <<allRuns, structures, mpc, data, runnerVars, tapVars,
                 sideVars>>

NextMerge == ParseCoverageDB

SpecMerge == InitMerge /\ [][NextMerge]_vars

NextNorm == ParseCoverageDB \/ NormalizeReport

SpecNorm == InitNorm /\ [][NextNorm]_vars

----------------------------------------------------------------------------
(* Properties of the merge and of the normalisation *)

RECURSIVE Flatten(_)
Flatten(runLists) ==
    IF runLists = <<>> THEN <<>> ELSE Head(runLists) \o Flatten(Tail(runLists))

\* v without its k-th element
Without(v, k) == SubSeq(v, 1, k - 1) \o SubSeq(v, k + 1, Len(v))

\* the permutations of a sequence
RECURSIVE Perms(_)
Perms(v) ==
    IF v = <<>> THEN {<<>>}
    ELSE UNION {{<<v[k]>> \o p : p \in Perms(Without(v, k))} : k \in 1..Len(v)}

\* the run lists obtained by reordering the records within each run
RECURSIVE InnerShuffles(_)
InnerShuffles(runLists) ==
    IF runLists = <<>> THEN {<<>>}
    ELSE {<<h>> \o t : h \in Perms(Head(runLists)),
                        t \in InnerShuffles(Tail(runLists))}

\* the run lists obtained by reordering the runs and, within each run, the
\* records
Shuffles(runLists) == UNION {Perms(inner) : inner \in InnerShuffles(runLists)}

\* C8: the merge of any reordering of the runs (and of the records within
\* the runs) gives the same per-file covered/total pairs and the same
\* uncovered lines as the merge that was made.
C8_MergeCommutative ==
    mpc = "parsed" =>
        \A shuffled \in Shuffles(allRuns) :
            LET merged == mergeRunsGo(shuffled, structures)
            IN /\ merged = data
               /\ calculateSummary(buildReport(merged)).Files = report.Files

\* three runs of one file were merged, the first of them shorter than a
\* later one, and the runs are not all equal
C8_Witness ==
    /\ mpc = "parsed"
    /\ Len(allRuns) = 3
    /\ \A k \in 1..3 : allRuns[k][1].File = "lib/A.pm"
    /\ Len(allRuns[1][1].Statement) < Len(allRuns[3][1].Statement)
    /\ allRuns[1] # allRuns[2]
    /\ data.Files[1].Statement.Total = 3

\* the records of the positions S of a sequence, in order
Pick(v, S) == SelectSeq([k \in 1..Len(v) |-> <<k, v[k]>>], LAMBDA e : e[1] \in S)

Records(v, S) == [k \in 1..Len(Pick(v, S)) |-> Pick(v, S)[k][2]]

\* the slot-wise summed counters of a group of records, as one record per file
SummedRecords(group) ==
    LET merged == mergeRun(<<>>, group)
        ps == SelectSeq(FileNames, LAMBDA f : f \in DOMAIN merged)
    IN [k \in 1..Len(ps) |->
          Rec(ps[k], merged[ps[k]].stmt, merged[ps[k]].branch,
              merged[ps[k]].cond, merged[ps[k]].sub)]

\* C9: the merge of the summed counters of the two groups of any partition
\* of the records equals the merge of all the records; the merge is the same
\* when all the records are in one run and when each is in a run of its own.
C9_MergeAssociative ==
    mpc = "parsed" =>
        LET flat == Flatten(allRuns) IN
        /\ \A S \in SUBSET (1..Len(flat)) :
             mergeRunsGo(<<SummedRecords(Records(flat, S)),
                           SummedRecords(Records(flat, (1..Len(flat)) \ S))>>,
                         structures) = data
        /\ mergeRunsGo(<<flat>>, structures) = data
        /\ mergeRunsGo([k \in 1..Len(flat) |-> <<flat[k]>>], structures) = data

\* three records of one file were merged, two of them with a hit at the
\* same statement position
C9_Witness ==
    /\ mpc = "parsed"
    /\ LET flat == Flatten(allRuns) IN
         /\ Len(flat) = 3
         /\ \A k \in 1..3 : flat[k].File = "lib/A.pm"
         /\ Len(flat[1].Statement) > 0 /\ Len(flat[2].Statement) > 0
         /\ flat[1].Statement[1] > 0 /\ flat[2].Statement[1] > 0
         /\ flat[3].Statement # flat[1].Statement

CategoriesOf(fc) == {fc.Statements, fc.Branches, fc.Conditions, fc.Subroutines}

\* C10: in the report of any merge, and after any number of Normalize calls
\* with any modes, covered <= total for every file and every category.
C10_CoveredAtMostTotal ==
    mpc = "parsed" =>
        \A f \in DOMAIN report.Files :
            \A c \in CategoriesOf(report.Files[f]) :
                0 <= c.Covered /\ c.Covered <= c.Total

\* Normalize was applied twice and has absorbed conditions into branches and
\* subroutines into statements, in a file that is partly covered
C10_Witness ==
    /\ mpc = "parsed"
    /\ normCount = 2
    /\ report.Summary.ConditionsAbsorbed
    /\ report.Summary.SubroutinesAbsorbed
    /\ \E f \in DOMAIN report.Files :
         /\ report.Files[f].Branches.Covered > 0
         /\ report.Files[f].Branches.Covered < report.Files[f].Branches.Total
         /\ report.Files[f].Statements.Covered < report.Files[f].Statements.Total

----------------------------------------------------------------------------
(* Normalize on the reports that ParseCoverageDB returns *)

\* the merged data of the run lists of up to max records
MergedData(max) ==
    {mergeRunsGo(runLists, structs) :
        runLists \in RunLists(max), structs \in StructureMaps}

\* ParseCoverageDB has returned: its run records are gone, the merged data
\* is kept to tell what the report was
InitNormalize ==
    /\ data \in MergedData(MaxNormRuns)
    /\ report = calculateSummary(buildReport(data))
    /\ allRuns = <<>>
    /\ structures = <<>>
    /\ mpc = "parsed"
    /\ normCount = 0
    /\ IdleRunner
    /\ IdleTap
    /\ IdleSide

NextNormalize == NormalizeReport

SpecNormalize == InitNormalize /\ [][NextNormalize]_vars

----------------------------------------------------------------------------
(* Properties of Normalize, step by step *)

\* the report as ParseCoverageDB returned it
parsedReport == calculateSummary(buildReport(data))

Pair(c) == <<c.Covered, c.Total>>

\* the covered/total pairs of the four categories of every file
FileCounts(r) ==
    [f \in DOMAIN r.Files |->
        [Statements  |-> Pair(r.Files[f].Statements),
         Branches    |-> Pair(r.Files[f].Branches),
         Conditions  |-> Pair(r.Files[f].Conditions),
         Subroutines |-> Pair(r.Files[f].Subroutines)]]

SummaryPercents(r) ==
    <<r.Summary.Statement, r.Summary.Branch, r.Summary.Condition,
      r.Summary.Subroutine, r.Summary.Combined>>

SummaryFlags(r) ==
    <<r.Summary.Normalized, r.Summary.ConditionsAbsorbed,
      r.Summary.SubroutinesAbsorbed>>

PairSum(a, b) == <<a[1] + b[1], a[2] + b[2]>>

\* this step is the call report.Normalize(m)
NormalizeStep(m) ==
    /\ mpc = "parsed"
    /\ normCount' = normCount + 1
    /\ report' = Normalize(report, m)

ConfigOf(names) == ParseNormalizationModes(names)[1]

\* some file of r has positions of every category, the conditions partly
\* covered
HasAllCategories(r) ==
    \E f \in DOMAIN r.Files :
        /\ r.Files[f].Statements.Total > 0
        /\ r.Files[f].Branches.Total > 0
        /\ r.Files[f].Conditions.Total > r.Files[f].Conditions.Covered
        /\ r.Files[f].Conditions.Covered > 0
        /\ r.Files[f].Subroutines.Total > 0

\* C11: a second Normalize with the configuration of the Normalize call just
\* made leaves every per-file covered/total pair, every summary percentage
\* and every flag of the summary as the first call left them.
C11_NormalizeIdempotent ==
    [][\A m \in NormConfigs :
         NormalizeStep(m) =>
            \A once \in {report'} : \A twice \in {Normalize(once, m)} :
                /\ FileCounts(twice) = FileCounts(once)
                /\ SummaryPercents(twice) = SummaryPercents(once)
                /\ SummaryFlags(twice) = SummaryFlags(once)]_vars

\* sonarqube with subroutines-to-statements was applied twice to a parsed
\* report that has positions of every category
C11_Witness ==
    /\ mpc = "parsed"
    /\ normCount = 2
    /\ HasAllCategories(parsedReport)
    /\ LET m == ConfigOf(NormalizeSubroutinesToStatements \o <<",">>
                            \o NormalizeSonarQube)
       IN report = Normalize(Normalize(parsedReport, m), m)

\* C12: a Normalize call without simple mode adds, in every file, the
\* conditions to the branches and zeroes them when conditions-to-branches is
\* requested, adds the subroutines to the statements and zeroes them when
\* subroutines-to-statements is requested, leaves the other categories as
\* they were and sets the flag of each absorption made.
C12_AbsorptionPreservesTotals ==
    [][\A m \in NormConfigs :
         (NormalizeStep(m) /\ ~m.nil /\ Len(m.Modes) > 0 /\ ~m.SimpleMode) =>
            /\ DOMAIN report'.Files = DOMAIN report.Files
            /\ \A f \in DOMAIN report.Files :
                  LET old == FileCounts(report)[f]
                      new == FileCounts(report')[f]
                  IN /\ new.Branches = IF m.ConditionsToBranch
                                       THEN PairSum(old.Branches, old.Conditions)
                                       ELSE old.Branches
                     /\ new.Conditions = IF m.ConditionsToBranch
                                         THEN <<0, 0>> ELSE old.Conditions
                     /\ new.Statements = IF m.SubroutinesToStmt
                                         THEN PairSum(old.Statements,
                                                      old.Subroutines)
                                         ELSE old.Statements
                     /\ new.Subroutines = IF m.SubroutinesToStmt
                                          THEN <<0, 0>> ELSE old.Subroutines
            /\ m.ConditionsToBranch => report'.Summary.ConditionsAbsorbed
            /\ m.SubroutinesToStmt => report'.Summary.SubroutinesAbsorbed]_vars

\* conditions-to-branches alone was applied to a parsed report that has
\* positions of every category
C12_Witness ==
    /\ mpc = "parsed"
    /\ normCount = 1
    /\ HasAllCategories(parsedReport)
    /\ report = Normalize(parsedReport, ConfigOf(NormalizeConditionsToBranches))
    /\ report.Summary.ConditionsAbsorbed
    /\ ~report.Summary.SubroutinesAbsorbed

\* C13: after a Normalize call whose modes include simple, every file has
\* branch, condition and subroutine covered and total equal to zero; when no
\* requested mode absorbs into the statements, their covered and total are
\* as before.
C13_SimpleZeroesOthers ==
    [][\A m \in NormConfigs :
         (NormalizeStep(m) /\ ~m.nil /\ m.SimpleMode) =>
            \A f \in DOMAIN report'.Files :
                /\ FileCounts(report')[f].Branches = <<0, 0>>
                /\ FileCounts(report')[f].Conditions = <<0, 0>>
                /\ FileCounts(report')[f].Subroutines = <<0, 0>>
                /\ ~m.SubroutinesToStmt =>
                      FileCounts(report')[f].Statements
                        = FileCounts(report)[f].Statements]_vars

\* simple together with conditions-to-branches was applied to a parsed
\* report that has positions of every category
C13_Witness ==
    /\ mpc = "parsed"
    /\ normCount = 1
    /\ HasAllCategories(parsedReport)
    /\ report = Normalize(parsedReport,
                          ConfigOf(NormalizeConditionsToBranches \o <<",">>
                                     \o NormalizeSimple))
    /\ report.Summary.Normalized

\* the pooled (covered-conditions + covered-statements) over
\* (total-conditions + total-statements) of a report
CombinedOf(r) ==
    LET t == Totals(r)
    IN IF t.totalCond + t.totalStmt > 0
       THEN Pct(t.coveredCond + t.coveredStmt, t.totalCond + t.totalStmt)
       ELSE ZeroPct

\* C14, as claimed: after a Normalize call in sonarqube mode (without
\* subroutines-to-statements and simple) the combined percentage is the one
\* of the totals before the conditions were absorbed into the branches.
C14_CombinedFromTotalsBefore ==
    [][\A m \in NormConfigs :
         (NormalizeStep(m) /\ ~m.nil /\ m.SonarQubeStyle
            /\ ~m.SubroutinesToStmt /\ ~m.SimpleMode) =>
            report'.Summary.Combined = CombinedOf(report)]_vars

\* C15: a Normalize call with a nil configuration or with no mode leaves the
\* whole report as it was.
C15_NilOrEmptyIsNoOp ==
    [][\A m \in NormConfigs :
         (NormalizeStep(m) /\ (m.nil \/ Len(m.Modes) = 0)) =>
            report' = report]_vars

\* two Normalize calls were made on a parsed report that has positions of
\* every category, and none of them normalised it
C15_Witness ==
    /\ mpc = "parsed"
    /\ normCount = 2
    /\ HasAllCategories(parsedReport)
    /\ report = Normalize(Normalize(parsedReport, NilConfig), EmptyConfig)
    /\ ~report.Summary.Normalized

----------------------------------------------------------------------------
(* coverage.ParseNormalizationModes applied to one --normalize value *)

ModeNameSet ==
    {NormalizeConditionsToBranches, NormalizeSubroutinesToStatements,
     NormalizeSonarQube, NormalizeSimple}

\* tokens of a --normalize value: the mode names, a padded name, a name in
\* the wrong case, an unknown name, the empty token, a blank token
ModeTokens ==
    ModeNameSet \cup
    {<<" ">> \o NormalizeSimple \o <<" ">>,
     <<"S", "i", "m", "p", "l", "e">>,
     <<"b", "o", "g", "u", "s">>,
     <<>>,
     <<" ">>}

TokenLists == UNION {[1..n -> ModeTokens] : n \in 0..MaxTokens}

InitModes ==
    /\ modesIn \in {JoinComma(toks) : toks \in TokenLists}
    /\ modesRes = <<>>
    /\ IdleRunner
    /\ IdleTap
    /\ IdleMerge
    /\ IdleDisk
    /\ IdleSelect
    /\ IdleFormat
    /\ IdlePrint
    /\ IdleModule

\* config, err := ParseNormalizationModes(input)
ParseModes ==
    /\ modesRes = <<>>
    /\ modesRes' = <<[config |-> ParseNormalizationModes(modesIn)[1],
                     err    |-> ParseNormalizationModes(modesIn)[2]]>>
    /\ UNCHANGED <<modesIn, runnerVars, tapVars, mergeVars, diskVars, printed,
                   moduleVars, selectVars, formatVars>>

NextModes == ParseModes

SpecModes == InitModes /\ [][NextModes]_vars

Spaces(n) == [k \in 1..n |-> " "]

\* token t is the mode name with blanks around it
IsModeToken(t, name) ==
    \E i \in 0..Len(t), j \in 0..Len(t) : t = Spaces(i) \o name \o Spaces(j)

\* the comma-separated tokens of a non-empty input
TokensOf(in) ==
    CHOOSE toks \in TokenLists : Len(toks) > 0 /\ JoinComma(toks) = in

Names(toks, name) == \E k \in 1..Len(toks) : IsModeToken(toks[k], name)

\* C16: the empty input gives the empty configuration and no error; any
\* other input gives an error with no configuration iff one of its tokens,
\* trimmed, is not a mode name; without error each flag of the
\* configuration is set iff a listed mode sets it, sonarqube setting
\* conditions-to-branches as well.
C16_ParseModesUnionOrError ==
    modesRes # <<>> =>
        LET res == modesRes[1] IN
        IF modesIn = <<>>
        THEN ~res.err /\ res.config = EmptyConfig
        ELSE LET toks == TokensOf(modesIn) IN
             /\ res.err <=> \E k \in 1..Len(toks) :
                                \A name \in ModeNameSet :
                                    ~IsModeToken(toks[k], name)
             /\ res.err => res.config.nil
             /\ ~res.err =>
                  /\ ~res.config.nil
                  /\ res.config.ConditionsToBranch
                       <=> (Names(toks, NormalizeConditionsToBranches)
                              \/ Names(toks, NormalizeSonarQube))
                  /\ res.config.SubroutinesToStmt
                       <=> Names(toks, NormalizeSubroutinesToStatements)
                  /\ res.config.SonarQubeStyle
                       <=> Names(toks, NormalizeSonarQube)
                  /\ res.config.SimpleMode <=> Names(toks, NormalizeSimple)
                  /\ Len(res.config.Modes) = Len(toks)

\* a valid name followed by an unknown one was refused
C16_Witness ==
    /\ modesRes # <<>>
    /\ modesRes[1].err
    /\ modesIn = NormalizeSonarQube \o <<",">> \o <<"b", "o", "g", "u", "s">>

----------------------------------------------------------------------------
(* coverage.PrintReport, formatCoverage *)

NotApplicable == <<"n", "/", "a">>

\* fmt's %.1f of a percentage followed by "%": the decimal digits of the
\* value rounded to tenths, ties to even (a tie needs a total that is a
\* multiple of 16)
FormatPercent(p) ==
    IF p = NaN THEN <<"N", "a", "N", "%">>
    ELSE IF p[2] = 0 THEN <<"+", "I", "n", "f", "%">>
    ELSE LET q == (10 * p[1]) \div p[2]
             rem == (10 * p[1]) % p[2]
             tenths == IF 2 * rem > p[2] THEN q + 1
                       ELSE IF 2 * rem = p[2] THEN q + (q % 2)
                       ELSE q
         IN FormatInt(tenths \div 10) \o <<".">> \o FormatInt(tenths % 10)
              \o <<"%">>

\* if total == 0 { return "n/a" }: a plausible slip formats the quotient
\* whatever the total
formatCoverageUnguarded(covered, total) == FormatPercent(Pct(covered, total))

formatCoverage(covered, total) ==
    IF total = 0 THEN NotApplicable ELSE FormatPercent(Pct(covered, total))

showCond(r) == ~r.Summary.ConditionsAbsorbed

showSub(r) == ~r.Summary.SubroutinesAbsorbed

\* Combined > 0 on a percentage
showCombined(r) == r.Summary.Normalized /\ r.Summary.Combined[1] > 0

\* the columns after the file name
columnsOf(r) ==
    <<"Stmt", "Branch">> \o (IF showCond(r) THEN <<"Cond">> ELSE <<>>)
                        \o (IF showSub(r) THEN <<"Sub">> ELSE <<>>)

\* one printed line: its kind, the text of its first column, its columns and
\* their cells, and the uncovered lines listed (field widths are not kept)
Row(kind, path, cols, cells, lines) ==
    [kind |-> kind, path |-> path, cols |-> cols, cells |-> cells,
     lines |-> lines]

noteRows(r) ==
    IF r.Summary.Normalized
    THEN <<Row("note", "", (IF r.Summary.ConditionsAbsorbed
                            THEN <<"conditions->branches">> ELSE <<>>)
                           \o (IF r.Summary.SubroutinesAbsorbed
                               THEN <<"subroutines->statements">> ELSE <<>>),
               <<>>, <<>>)>>
    ELSE <<>>

\* the line of one file and, in verbose mode, the line of its uncovered lines
fileRows(r, path, verbose) ==
    LET f == r.Files[path]
        stmtStr == formatCoverage(f.Statements.Covered, f.Statements.Total)
        branchStr == formatCoverage(f.Branches.Covered, f.Branches.Total)
        condStr == formatCoverage(f.Conditions.Covered, f.Conditions.Total)
        subStr == formatCoverage(f.Subroutines.Covered, f.Subroutines.Total)
    IN <<Row("file", path, columnsOf(r),
             <<stmtStr, branchStr>> \o (IF showCond(r) THEN <<condStr>> ELSE <<>>)
                                   \o (IF showSub(r) THEN <<subStr>> ELSE <<>>),
             <<>>)>>
       \o (IF verbose /\ Len(f.Statements.Uncovered) > 0
           THEN <<Row("uncovered", path, <<>>, <<>>, f.Statements.Uncovered)>>
           ELSE <<>>)

RECURSIVE allFileRows(_, _, _)
allFileRows(r, paths, verbose) ==
    IF paths = <<>> THEN <<>>
    ELSE fileRows(r, Head(paths), verbose) \o allFileRows(r, Tail(paths), verbose)

totalRow(r) ==
    Row("total", "Total", columnsOf(r),
        <<FormatPercent(r.Summary.Statement), FormatPercent(r.Summary.Branch)>>
          \o (IF showCond(r) THEN <<FormatPercent(r.Summary.Condition)>> ELSE <<>>)
          \o (IF showSub(r) THEN <<FormatPercent(r.Summary.Subroutine)>> ELSE <<>>),
        <<>>)

combinedRows(r) ==
    IF showCombined(r)
    THEN <<Row("combined", "", <<"Combined">>,
               <<FormatPercent(r.Summary.Combined)>>, <<>>)>>
    ELSE <<>>

\* everything PrintReport writes, in order
printReport(r, verbose) ==
    noteRows(r) \o <<Row("header", "File", columnsOf(r), <<>>, <<>>)>>
      \o allFileRows(r, PathsOf(r), verbose) \o <<totalRow(r)>>
      \o combinedRows(r)

\* PrintReport(report, verbose)
PrintReport ==
    /\ mpc = "parsed"
    /\ \E verbose \in BOOLEAN : printed' = printReport(report, verbose)
    /\ mpc' = "printed"
    /\ UNCHANGED <<allRuns, structures, data, report, normCount, runnerVars,
                   tapVars, diskVars, modesVars, moduleVars, selectVars,
                   formatVars>>

NextPrint == NormalizeReport \/ PrintReport

SpecPrint == InitNormalize /\ [][NextPrint]_vars

\* the cell of column col in a printed row
CellOf(row, col) ==
    row.cells[CHOOSE k \in 1..Len(row.cols) : row.cols[k] = col]

CategoryOf(fc, col) ==
    CASE col = "Stmt" -> fc.Statements
      [] col = "Branch" -> fc.Branches
      [] col = "Cond" -> fc.Conditions
      [] col = "Sub" -> fc.Subroutines

Finite(p) == p[2] # 0

\* C17: every percentage of the report, per file and in the summary, is the
\* result of a division by a non-zero total (none is NaN or infinite), a
\* category with total 0 has percentage 0, and in the printed report the
\* cell of a file's category is "n/a" iff the total of the category is 0.
C17_NotApplicableIffZeroTotal ==
    /\ mpc \in {"parsed", "printed"} =>
          /\ \A f \in DOMAIN report.Files :
                \A c \in CategoriesOf(report.Files[f]) :
                    Finite(c.Percent) /\ (c.Total = 0 => c.Percent = ZeroPct)
          /\ \A k \in 1..5 : Finite(SummaryPercents(report)[k])
    /\ mpc = "printed" =>
          \A k \in 1..Len(printed) :
              printed[k].kind = "file" =>
                  \A col \in Range(printed[k].cols) :
                      CellOf(printed[k], col) = NotApplicable
                        <=> CategoryOf(report.Files[printed[k].path], col).Total = 0

\* a report was printed with a file whose statements are all covered and
\* that has no branch and no subroutine position
C17_Witness ==
    /\ mpc = "printed"
    /\ \E k \in 1..Len(printed) :
         /\ printed[k].kind = "file"
         /\ printed[k].cols = <<"Stmt", "Branch", "Cond", "Sub">>
         /\ printed[k].cells[1] = <<"1", "0", "0", ".", "0", "%">>
         /\ printed[k].cells[2] = NotApplicable
         /\ printed[k].cells[3] # NotApplicable
         /\ printed[k].cells[4] = NotApplicable

----------------------------------------------------------------------------
(* Properties of the summary *)

\* the sum of a count over the files S of the report
RECURSIVE SumOver(_, _, _)
SumOver(S, cat, field) ==
    IF S = {} THEN 0
    ELSE LET f == CHOOSE x \in S : TRUE
         IN report.Files[f][cat][field] + SumOver(S \ {f}, cat, field)

\* percentage p is covered / total * 100, and 0 when total is 0
IsPooled(p, covered, total) ==
    IF total = 0 THEN p = ZeroPct
    ELSE p[2] > 0 /\ p[1] * total = 100 * covered * p[2]

PooledOver(p, cat) ==
    IsPooled(p, SumOver(DOMAIN report.Files, cat, "Covered"),
                SumOver(DOMAIN report.Files, cat, "Total"))

\* C18: in the report that ParseCoverageDB returns, and after every
\* Normalize, each category's summary percentage is the sum of covered over
\* the sum of total of all files times 100, and the summary's file count is
\* the number of files of the report.
C18_SummaryIsPooled ==
    mpc = "parsed" =>
        /\ PooledOver(report.Summary.Statement, "Statements")
        /\ PooledOver(report.Summary.Branch, "Branches")
        /\ PooledOver(report.Summary.Condition, "Conditions")
        /\ PooledOver(report.Summary.Subroutine, "Subroutines")
        /\ report.Summary.TotalFiles = Cardinality(DOMAIN report.Files)

\* a report of two files with different statement totals was summarised, and
\* the statement percentage of the summary is not the mean of the two files'
C18_Witness ==
    /\ mpc = "parsed"
    /\ normCount = 0
    /\ DOMAIN report.Files = {"lib/A.pm", "lib/B.pm"}
    /\ LET a == report.Files["lib/A.pm"].Statements
           b == report.Files["lib/B.pm"].Statements
           p == report.Summary.Statement
       IN /\ a.Total > b.Total /\ b.Total > 0
          /\ a.Percent # b.Percent
          /\ 2 * p[1] * a.Percent[2] * b.Percent[2]
               # p[2] * (a.Percent[1] * b.Percent[2] + b.Percent[1] * a.Percent[2])

----------------------------------------------------------------------------
(* runner.extractModuleFromTestFile applied to one path *)

DigitChars == {"0", "1", "2", "3", "4", "5", "6", "7", "8", "9"}

UpperChars ==
    {"A", "B", "C", "D", "E", "F", "G", "H", "I", "J", "K", "L", "M", "N",
     "O", "P", "Q", "R", "S", "T", "U", "V", "W", "X", "Y", "Z"}

HasSuffix(s, p) ==
    /\ Len(s) >= Len(p)
    /\ SubSeq(s, Len(s) - Len(p) + 1, Len(s)) = p

\* 0-based position of the last occurrence of character c, -1 if none
RECURSIVE LastIndexByte(_, _)
LastIndexByte(s, c) ==
    IF s = <<>> THEN -1
    ELSE IF s[Len(s)] = c THEN Len(s) - 1
    ELSE LastIndexByte(SubSeq(s, 1, Len(s) - 1), c)

RECURSIVE stripTrailingSlashes(_)
stripTrailingSlashes(s) ==
    IF s # <<>> /\ s[Len(s)] = "/"
    THEN stripTrailingSlashes(SubSeq(s, 1, Len(s) - 1)) ELSE s

\* filepath.Base
Base(path) ==
    IF path = <<>> THEN <<".">>
    ELSE LET p == stripTrailingSlashes(path)
             q == SubSeq(p, LastIndexByte(p, "/") + 2, Len(p))
         IN IF q = <<>> THEN <<"/">> ELSE q

\* strings.Replace(s, "-", new, 1): a plausible slip for ReplaceAll
RECURSIVE replaceFirst(_, _, _)
replaceFirst(s, old, new) ==
    IF s = <<>> THEN <<>>
    ELSE IF Head(s) = old THEN new \o Tail(s)
    ELSE <<Head(s)>> \o replaceFirst(Tail(s), old, new)

\* strings.ReplaceAll for a one-character old
RECURSIVE ReplaceAll(_, _, _)
ReplaceAll(s, old, new) ==
    IF s = <<>> THEN <<>>
    ELSE (IF Head(s) = old THEN new ELSE <<Head(s)>>)
         \o ReplaceAll(Tail(s), old, new)

extractModuleFromTestFile(testFile) ==
    LET base == Base(testFile) IN
    IF ~HasSuffix(base, <<".", "t">>) THEN <<>>
    ELSE LET name == SubSeq(base, 1, Len(base) - 2) IN
         IF Len(name) > 0 /\ name[1] \in DigitChars THEN <<>>
         ELSE LET idx == Index(name, <<"_">>)
                  cut == IF idx # -1 THEN SubSeq(name, 1, idx) ELSE name
              IN IF Len(cut) = 0 \/ cut[1] \notin UpperChars THEN <<>>
                 ELSE ReplaceAll(cut, "-", <<":", ":">>)

\* characters of test file names: an uppercase and a lowercase letter, a
\* digit, the hyphen, the underscore
StemChars == {"A", "b", "0", "-", "_"}

Stems == UNION {[1..n -> StemChars] : n \in 0..MaxStem}

\* paths: a file in the current directory or in t/, with the extension of a
\* test, of a module, or named as a directory
TestPaths ==
    {dir \o stem \o ext :
        dir \in {<<>>, <<"t", "/">>}, stem \in Stems,
        ext \in {<<".", "t">>, <<".", "p", "m">>, <<".", "t", "/">>}}

InitModule ==
    /\ modIn \in TestPaths
    /\ modOut = <<>>
    /\ IdleRunner
    /\ IdleTap
    /\ IdleMerge
    /\ IdleDisk
    /\ IdleSelect
    /\ IdleFormat
    /\ IdlePrint
    /\ IdleModes

\* moduleName := extractModuleFromTestFile(testFile)
ExtractModule ==
    /\ modOut = <<>>
    /\ modOut' = <<extractModuleFromTestFile(modIn)>>
    /\ UNCHANGED <<modIn, runnerVars, tapVars, mergeVars, diskVars, printed,
                   modesVars, selectVars, formatVars>>

NextModule == ExtractModule

SpecModule == InitModule /\ [][NextModule]_vars

\* b is the base name of p: its last component, the slashes after it dropped
IsBaseName(p, b) ==
    \E a \in 0..Len(p), z \in 0..Len(p) :
        /\ a < z
        /\ b = SubSeq(p, a + 1, z)
        /\ \A k \in (a + 1)..z : p[k] # "/"
        /\ a = 0 \/ p[a] = "/"
        /\ \A k \in (z + 1)..Len(p) : p[k] = "/"

\* t is n cut before its first underscore
IsCutAtUnderscore(n, t) ==
    /\ Len(t) <= Len(n)
    /\ t = SubSeq(n, 1, Len(t))
    /\ \A k \in 1..Len(t) : t[k] # "_"
    /\ Len(t) = Len(n) \/ n[Len(t) + 1] = "_"

\* m is t with every hyphen written as "::"
RECURSIVE IsHyphensToColons(_, _)
IsHyphensToColons(t, m) ==
    IF t = <<>> THEN m = <<>>
    ELSE IF Head(t) = "-"
         THEN Len(m) >= 2 /\ m[1] = ":" /\ m[2] = ":"
              /\ IsHyphensToColons(Tail(t), SubSeq(m, 3, Len(m)))
         ELSE Len(m) >= 1 /\ m[1] = Head(t)
              /\ IsHyphensToColons(Tail(t), Tail(m))

\* C19: the result is the empty string when the base name of the path does
\* not end in ".t", when the name (the base name without ".t") starts with
\* a digit, or when the name cut before its first underscore is empty or
\* does not start with A-Z; otherwise it is the cut name with every hyphen
\* written as "::".
C19_ExtractModule ==
    modOut # <<>> =>
        \A b \in {SubSeq(modIn, a + 1, z) : a \in 0..Len(modIn), z \in 0..Len(modIn)} :
            IsBaseName(modIn, b) =>
                IF ~(Len(b) >= 2 /\ b[Len(b) - 1] = "." /\ b[Len(b)] = "t")
                THEN modOut[1] = <<>>
                ELSE \A t \in {SubSeq(b, 1, n) : n \in 0..(Len(b) - 2)} :
                        IsCutAtUnderscore(SubSeq(b, 1, Len(b) - 2), t) =>
                            IF \/ Len(b) > 2 /\ b[1] \in DigitChars
                               \/ t = <<>>
                               \/ t[1] \notin UpperChars
                            THEN modOut[1] = <<>>
                            ELSE IsHyphensToColons(t, modOut[1])

\* "t/A-b_0.t"-like paths: a name with a hyphen and a suffix after an
\* underscore gave the module name "A::b"
C19_Witness ==
    /\ modOut = <<<<"A", ":", ":", "b">>>>
    /\ Contains(modIn, <<"_">>)
    /\ HasPrefix(modIn, <<"t", "/">>)

----------------------------------------------------------------------------
(* coverage.parseAllRunsJSON: from the database on disk to the run records *)

\* JSON numbers decoded as float64 are kept in halves: Half(3) is 1.5
\* int(v) of a non-negative float64
TruncHalf(h) == h \div 2

\* one entry of a run's "count" object
Count(file, stmt, branch, cond, sub) ==
    [File |-> file, Statement |-> stmt, Branch |-> branch, Condition |-> cond,
     Subroutine |-> sub]

decodeBranch(b) ==
    IF Len(b) >= 2 THEN <<TruncHalf(b[1]), TruncHalf(b[2])>> ELSE <<0, 0>>

decodeCondition(c) == [i \in 1..Len(c) |-> TruncHalf(c[i])]

\* the singleRunData of one entry
recordOf(count) ==
    Rec(count.File, count.Statement,
        [k \in 1..Len(count.Branch) |-> decodeBranch(count.Branch[k])],
        [k \in 1..Len(count.Condition) |-> decodeCondition(count.Condition[k])],
        count.Subroutine)

decodeRun(run) == [k \in 1..Len(run) |-> recordOf(run[k])]

decodeFile(file) == [k \in 1..Len(file.Runs) |-> decodeRun(file.Runs[k])]

\* the runData lists a cover file appends: Go ranges over the "runs" and
\* "count" maps in any order, and a run without entries appends nothing
fileOrders(file) ==
    {SelectSeq(s, LAMBDA rd : Len(rd) > 0) : s \in Shuffles(decodeFile(file))}

\* a file of a directory: for a file that json.Unmarshal refuses, Runs is
\* what had been decoded before the error
File(name, isDir, readable, valid, runs) ==
    [Name |-> name, IsDir |-> isDir, readable |-> readable, valid |-> valid,
     Runs |-> runs]

isDataFile(f) ==
    /\ ~f.IsDir
    /\ ~HasSuffix(f.Name, <<".", "l", "o", "c", "k">>)
    /\ HasPrefix(f.Name, <<"c", "o", "v", "e", "r", ".">>)

\* if err := json.Unmarshal(data, &runFile); err != nil { continue }: a
\* plausible slip ignores the error and uses what was decoded
parsedIgnoringError(f) == f.readable

\* os.ReadFile and json.Unmarshal both succeed
parsed(f) == f.readable /\ f.valid

\* the first data file of a run directory that is read and parsed, if any
RECURSIVE firstParsed(_)
firstParsed(files) ==
    IF files = <<>> THEN <<>>
    ELSE IF isDataFile(Head(files)) /\ parsed(Head(files)) THEN <<Head(files)>>
    ELSE firstParsed(Tail(files))

\* an entry of the runs directory
Dir(isDir, readable, files) ==
    [IsDir |-> isDir, readable |-> readable, files |-> files]

dirOrders(entry) ==
    IF ~entry.IsDir \/ ~entry.readable THEN {<<>>}
    ELSE LET g == firstParsed(entry.files)
         IN IF g = <<>> THEN {<<>>} ELSE fileOrders(g[1])

RECURSIVE allRunsOrders(_)
allRunsOrders(entries) ==
    IF entries = <<>> THEN {<<>>}
    ELSE {h \o t : h \in dirOrders(Head(entries)),
                   t \in allRunsOrders(Tail(entries))}

\* an entry of the structure directory
StructEntry(name, isDir, readable, valid, file, stmt) ==
    [Name |-> name, IsDir |-> isDir, readable |-> readable, valid |-> valid,
     File |-> file, Statement |-> stmt]

NoStructures == [f \in Range(FileNames) |-> <<>>]

RECURSIVE loadStructures(_, _)
loadStructures(entries, acc) ==
    IF entries = <<>> THEN acc
    ELSE LET e == Head(entries) IN
         IF \/ e.IsDir
            \/ HasSuffix(e.Name, <<".", "l", "o", "c", "k">>)
            \/ ~e.readable
            \/ ~e.valid
            \/ e.File = ""
            \/ e.File \notin Range(FileNames)
         THEN loadStructures(Tail(entries), acc)
         ELSE loadStructures(Tail(entries), [acc EXCEPT ![e.File] = e.Statement])

structuresOf(dir) ==
    IF dir.readable THEN loadStructures(dir.entries, NoStructures)
    ELSE NoStructures

CoverName == <<"c", "o", "v", "e", "r", ".", "1", "4">>

CoverFile(readable, valid, runs) == File(CoverName, FALSE, readable, valid, runs)

CountA1 == Count("lib/A.pm", <<1, 0>>, <<<<4, 0>>>>, <<<<2, 0>>>>, <<1>>)
CountA2 == Count("lib/A.pm", <<0, 2>>, <<<<0, 3>>>>, <<<<0, 2, 1>>>>, <<0>>)
CountA3 == Count("lib/A.pm", <<0, 0, 5>>, <<<<0, 0>>, <<2>>>>, <<>>, <<0, 0>>)
CountB1 == Count("lib/B.pm", <<0>>, <<<<0>>>>, <<<<0>>>>, <<0>>)
CountB2 == Count("lib/B.pm", <<3>>, <<>>, <<<<>>, <<4>>>>, <<>>)

\* entries of the runs directory: runs that parse (one or two files in the
\* run, one or two runs in the file), runs whose file cannot be read or
\* parsed, a run with a second data file, a directory that cannot be
\* listed, a stray file, a run with a lock file and other files
RunDirs ==
    {Dir(TRUE, TRUE, <<CoverFile(TRUE, TRUE, <<<<CountA1>>>>)>>),
     Dir(TRUE, TRUE, <<CoverFile(TRUE, TRUE, <<<<CountA2, CountB1>>>>)>>),
     Dir(TRUE, TRUE, <<CoverFile(TRUE, TRUE, <<<<>>, <<CountB2>>>>)>>),
     Dir(TRUE, TRUE, <<CoverFile(FALSE, FALSE, <<>>)>>),
     Dir(TRUE, TRUE, <<CoverFile(TRUE, FALSE, <<<<CountB2>>>>)>>),
     Dir(TRUE, TRUE,
         <<File(<<"c", "o", "v", "e", "r", ".", "1", "3">>, FALSE, TRUE, FALSE,
                <<<<CountA3>>>>),
           CoverFile(TRUE, TRUE, <<<<CountB2>>>>)>>),
     Dir(TRUE, FALSE, <<>>),
     Dir(FALSE, TRUE, <<>>),
     Dir(TRUE, TRUE,
         <<File(CoverName \o <<".", "l", "o", "c", "k">>, FALSE, TRUE, TRUE,
                <<<<CountB1>>>>),
           File(<<"c", "o", "v", "e", "r", ".", "d">>, TRUE, TRUE, TRUE, <<>>),
           File(<<"d", "i", "g", "e", "s", "t">>, FALSE, TRUE, TRUE,
                <<<<CountB1>>>>),
           CoverFile(TRUE, TRUE, <<<<CountA3>>>>)>>)}

RunsDirs ==
    {NoDir} \cup
    {[readable |-> TRUE, entries |-> es] :
        es \in UNION {[1..n -> RunDirs] : n \in 0..MaxRunDirs}}

StructName == <<"a", "b", "c">>

StructDirs ==
    {NoDir,
     [readable |-> TRUE,
      entries |-> <<StructEntry(StructName, FALSE, TRUE, TRUE, "lib/A.pm",
                                <<10, 20, 30>>),
                    StructEntry(StructName \o <<".", "l", "o", "c", "k">>, FALSE,
                                TRUE, TRUE, "lib/A.pm", <<1>>),
                    StructEntry(StructName, FALSE, TRUE, TRUE, "lib/B.pm",
                                <<5>>)>>],
     [readable |-> TRUE,
      entries |-> <<StructEntry(StructName, FALSE, TRUE, TRUE, "lib/A.pm",
                                <<7, 7>>),
                    StructEntry(StructName, FALSE, TRUE, FALSE, "lib/A.pm",
                                <<1>>),
                    StructEntry(StructName, FALSE, FALSE, FALSE, "lib/B.pm",
                                <<2>>),
                    StructEntry(StructName, FALSE, TRUE, TRUE, "", <<3>>)>>]}

InitDisk ==
    /\ runsDir \in RunsDirs
    /\ structDir \in StructDirs
    /\ allRuns = <<>>
    /\ structures = <<>>
    /\ mpc = "disk"
    /\ data = EmptyData
    /\ report = EmptyReport
    /\ normCount = 0
    /\ IdleRunner
    /\ IdleTap
    /\ IdlePrint
    /\ IdleModes
    /\ IdleModule
    /\ IdleSelect
    /\ IdleFormat

\* parseAllRunsJSON up to its call of mergeRunsGo, which the step
\* ParseCoverageDB makes; "failed" is the return of an error
ParseAllRunsJSON ==
    /\ mpc = "disk"
    /\ IF runsDir.readable
       THEN /\ allRuns' \in allRunsOrders(runsDir.entries)
            /\ mpc' = "input"
       ELSE /\ allRuns' = allRuns
            /\ mpc' = "failed"
    /\ structures' = structuresOf(structDir)
    /\ UNCHANGED <<data, report, normCount, runnerVars, tapVars, sideVars>>

NextDisk == ParseAllRunsJSON \/ ParseCoverageDB

SpecDisk == InitDisk /\ [][NextDisk]_vars

\* file j of run directory d is the data file that was parsed: it is a
\* cover file that was read and parsed, and no cover file before it was
IsParsedDataFile(d, j) ==
    /\ d.IsDir /\ d.readable
    /\ isDataFile(d.files[j])
    /\ d.files[j].readable /\ d.files[j].valid
    /\ \A i \in 1..(j - 1) :
          ~(isDataFile(d.files[i]) /\ d.files[i].readable /\ d.files[i].valid)

\* the records of the run directories from k on whose data file parsed
RECURSIVE ParsedRunsFrom(_)
ParsedRunsFrom(k) ==
    IF k > Len(runsDir.entries) THEN <<>>
    ELSE LET d == runsDir.entries[k]
             js == {j \in 1..Len(d.files) : IsParsedDataFile(d, j)}
         IN (IF js = {} THEN <<>>
             ELSE decodeFile(d.files[CHOOSE j \in js : TRUE]))
            \o ParsedRunsFrom(k + 1)

\* some run directory has a data file that could not be read or parsed
SomeRunFailed ==
    \E k \in 1..Len(runsDir.entries) :
        LET d == runsDir.entries[k] IN
        \/ d.IsDir /\ ~d.readable
        \/ \E j \in 1..Len(d.files) :
              isDataFile(d.files[j]) /\ ~(d.files[j].readable /\ d.files[j].valid)

\* C20: parseAllRunsJSON returns an error only when the runs directory
\* itself cannot be listed, never for a run whose data file cannot be read
\* or parsed, and the merged data is the merge of the records of exactly the
\* runs whose data file was read and parsed.
C20_FailedRunsAreSkipped ==
    /\ mpc = "failed" => ~runsDir.readable
    /\ mpc = "parsed" => data = mergeRunsGo(ParsedRunsFrom(1), structures)

\* a database with a run that failed to parse and a run that parsed was
\* merged, and the merge holds the records of the run that parsed
C20_Witness ==
    /\ mpc = "parsed"
    /\ Len(runsDir.entries) = 2
    /\ SomeRunFailed
    /\ Len(ParsedRunsFrom(1)) = 1
    /\ Len(data.Files) > 0

----------------------------------------------------------------------------
(* Properties of the merge, category by category, checked under SpecMerge *)

\* the records of file f in all the runs
RecordsOf(f) == SelectSeq(Flatten(allRuns), LAMBDA r : r.File = f)

\* the entry of file f in the merged data
EntryOf(f) == CHOOSE e \in Range(data.Files) : e.Path = f

Longest(S) == IF S = {} THEN 0 ELSE CHOOSE n \in S : \A m \in S : m <= n

\* the longest of the arrays vs
LongestOf(vs) == Longest({Len(vs[k]) : k \in 1..Len(vs)})

\* the sum over the arrays vs of the count at position i, where present
RECURSIVE SumAt(_, _)
SumAt(vs, i) ==
    IF vs = <<>> THEN 0
    ELSE (IF i <= Len(Head(vs)) THEN Head(vs)[i] ELSE 0) + SumAt(Tail(vs), i)

StatementsOf(recs) == [k \in 1..Len(recs) |-> recs[k].Statement]

SubsOf(recs) == [k \in 1..Len(recs) |-> recs[k].Sub]

\* the counts of arm a (1: true, 2: false) of the branch positions
ArmsOf(recs, a) ==
    [k \in 1..Len(recs) |->
        [j \in 1..Len(recs[k].Branch) |-> recs[k].Branch[j][a]]]

\* the slot vectors of condition position i
SlotsOf(recs, i) ==
    [k \in 1..Len(recs) |->
        IF i <= Len(recs[k].Condition) THEN recs[k].Condition[i] ELSE <<>>]

\* the merged data has an entry exactly for the files with a record
MergedFilesAreRecorded ==
    /\ \A f \in Range(FileNames) :
          (RecordsOf(f) # <<>>) <=> (\E e \in Range(data.Files) : e.Path = f)
    /\ \A j, k \in DOMAIN data.Files :
          data.Files[j].Path = data.Files[k].Path => j = k

\* C21: for every file, the statement total is the length of the longest
\* statement array of its records, a position is covered iff the sum of its
\* counts over all records is > 0, and the uncovered lines are the lines of
\* the positions whose sum is zero: the structure map's line for the
\* position, and the position's number + 1 where the map has none.
C21_StatementMerge ==
    mpc = "parsed" =>
        /\ MergedFilesAreRecorded
        /\ \A f \in Range(FileNames) :
              RecordsOf(f) # <<>> =>
                  LET stmts == StatementsOf(RecordsOf(f))
                      n == LongestOf(stmts)
                      e == EntryOf(f).Statement
                  IN /\ e.Total = n
                     /\ e.Covered = Cardinality({i \in 1..n : SumAt(stmts, i) > 0})
                     /\ e.Lines =
                          {FormatInt(IF i <= Len(structures[f])
                                     THEN structures[f][i] ELSE i) :
                              i \in {j \in 1..n : SumAt(stmts, j) = 0}}

\* the runs [1,0] and [0,2] of one file were merged to 2 covered of 2
C21_Witness ==
    /\ mpc = "parsed"
    /\ StatementsOf(RecordsOf("lib/A.pm")) = <<<<1, 0>>, <<0, 2>>>>
    /\ EntryOf("lib/A.pm").Statement.Covered = 2
    /\ EntryOf("lib/A.pm").Statement.Total = 2
    /\ EntryOf("lib/A.pm").Statement.Lines = {}

\* C22: for every file, the branch total is twice the number of branch
\* positions of its longest branch array, and the covered count is the
\* number of (position, arm) pairs whose counts summed over all records are
\* > 0, the two arms being summed separately.
C22_BranchMerge ==
    mpc = "parsed" =>
        \A f \in Range(FileNames) :
            RecordsOf(f) # <<>> =>
                LET recs == RecordsOf(f)
                    n == LongestOf(ArmsOf(recs, 1))
                    e == EntryOf(f).Branch
                IN /\ e.Total = 2 * n
                   /\ e.Covered =
                        Cardinality({pa \in (1..n) \X {1, 2} :
                                        SumAt(ArmsOf(recs, pa[2]), pa[1]) > 0})

\* the hit pairs (2,0) and (0,1) of one branch position were merged to 2
\* covered of 2
C22_Witness ==
    /\ mpc = "parsed"
    /\ [k \in 1..Len(RecordsOf("lib/A.pm")) |-> RecordsOf("lib/A.pm")[k].Branch]
         = <<<<<<2, 0>>>>, <<<<0, 1>>>>>>
    /\ EntryOf("lib/A.pm").Branch.Covered = 2
    /\ EntryOf("lib/A.pm").Branch.Total = 2

\* C23: for every file, the condition total is the number of slots of its
\* condition positions (each position as long as its longest vector), a slot
\* is covered iff its counts summed over all records are > 0, the
\* subroutine total is the length of the longest subroutine array, and a
\* subroutine position is covered iff its summed count is > 0.
C23_ConditionAndSubroutineMerge ==
    mpc = "parsed" =>
        \A f \in Range(FileNames) :
            RecordsOf(f) # <<>> =>
                LET recs == RecordsOf(f)
                    n == Longest({Len(recs[k].Condition) : k \in 1..Len(recs)})
                    slots == UNION {{<<i, j>> : j \in 1..LongestOf(SlotsOf(recs, i))} :
                                       i \in 1..n}
                    subs == SubsOf(recs)
                    m == LongestOf(subs)
                IN /\ EntryOf(f).Condition.Total = Cardinality(slots)
                   /\ EntryOf(f).Condition.Covered =
                        Cardinality({ps \in slots :
                                        SumAt(SlotsOf(recs, ps[1]), ps[2]) > 0})
                   /\ EntryOf(f).Subroutine.Total = m
                   /\ EntryOf(f).Subroutine.Covered =
                        Cardinality({i \in 1..m : SumAt(subs, i) > 0})

\* the slot vectors (1,0) and (0,1,0) of one condition position were merged
\* to 2 covered of 3, and the subroutine counts 1 and 0 to 1 covered of 1
C23_Witness ==
    /\ mpc = "parsed"
    /\ SlotsOf(RecordsOf("lib/A.pm"), 1) = <<<<1, 0>>, <<0, 1, 0>>>>
    /\ SubsOf(RecordsOf("lib/A.pm")) = <<<<1>>, <<0>>>>
    /\ EntryOf("lib/A.pm").Condition.Covered = 2
    /\ EntryOf("lib/A.pm").Condition.Total = 3
    /\ EntryOf("lib/A.pm").Subroutine.Covered = 1
    /\ EntryOf("lib/A.pm").Subroutine.Total = 1

----------------------------------------------------------------------------
(* Properties of the worker pool, checked under Spec *)

\* the goroutines of the running Run* call
PoolWorkers == {w \in Workers : wpc[w] # "none"}

\* number of times index i is still in the channel
Queued(i) == Cardinality({j \in 1..Len(jobs) : jobs[j] = i})

\* the workers that took index i and have not stored its result yet
Holders(i) ==
    {w \in Workers : wpc[w] \in {"run", "lock", "update"} /\ widx[w] = i}

\* C24: at most J test processes are in flight (none for J <= 0); while a
\* Run* call runs, its goroutines are the J that it started, neither more
\* nor fewer; every index is either still queued or was taken exactly once,
\* by one worker; and for J >= 1 the queue is empty when all workers are
\* done, so that no index is skipped.
C24_FixedPoolClosedQueue ==
    /\ Cardinality(inflight) <= Max(cfg.Jobs, 0)
    /\ pass > 0 =>
         /\ PoolWorkers = {w \in Workers : w <= cfg.Jobs}
         /\ \A k \in 1..Len(input) :
              /\ Queued(k - 1) + runCount[pass][k] = 1
              /\ Cardinality(Holders(k - 1)) <= runCount[pass][k]
         /\ (cfg.Jobs >= 1 /\ PoolDone) =>
              (jobs = <<>> /\ \A k \in 1..Len(input) : runCount[pass][k] = 1)

\* both workers of a pool of two have a test process in flight while an
\* index is still queued
C24_Witness ==
    /\ pass = 1
    /\ cfg.Jobs = 2
    /\ Cardinality(inflight) = 2
    /\ jobs # <<>>
    /\ Cardinality(PoolWorkers) = 2

\* what a step may do to the progress aggregate and to the results
ProgressStep ==
    /\ 0 <= passed' /\ passed' <= completed' /\ completed' <= Len(input')
    /\ \A v, w \in Workers :
          (wpc'[v] = "update" /\ wpc'[w] = "update") => (v = w /\ mu' = w)
    /\ (pass' = pass /\ pass > 0
            /\ (results' # results \/ completed' # completed \/ passed' # passed)) =>
          \E w \in Workers :
              /\ wpc[w] = "update" /\ mu = w
              /\ results[widx[w] + 1] = ZeroResult
              /\ wres[w] # ZeroResult
              /\ results' = [results EXCEPT ![widx[w] + 1] = wres[w]]
              /\ completed' = completed + 1
              /\ passed' = passed + (IF wres[w].Passed THEN 1 ELSE 0)
    /\ (cfg.Jobs >= 1 /\ pass' > 0 /\ \A w \in Workers : wpc'[w] \in {"none", "done"}) =>
          /\ completed' = Len(input')
          /\ passed' = Cardinality({k \in 1..Len(results') : results'[k].Passed})

\* C25: after every step passed <= completed <= total and at most one
\* worker is in the update section, holding the mutex; a step changes the
\* results or the counters only from the update section: it writes the slot
\* of the worker's index, which was never written before, adds 1 to
\* completed and adds 1 to passed iff the result passed; and for J >= 1, when
\* all workers are done, completed = total and passed is the number of
\* passed results.
C25_ProgressUnderMutex == [][ProgressStep]_vars

\* a worker is in the update section while the other waits for the mutex,
\* after a failed test was counted
C25_Witness ==
    /\ pass = 1
    /\ \E v, w \in Workers : wpc[v] = "update" /\ mu = v /\ wpc[w] = "lock"
    /\ completed = 1
    /\ passed = 0

\* C29: with J <= 0 no worker is started and no test process is ever
\* spawned; RunTests returns at once with a zero TestResult per test file,
\* every test is counted as failed, and no isolated directory is collected
\* (so that no merge of directories is attempted).
C29_NoWorkersForNonPositiveJobs ==
    cfg.Jobs <= 0 =>
        /\ procs = {} /\ inflight = {}
        /\ \A w \in Workers : wpc[w] = "none"
        /\ pc = "RunTests" => (PoolDone /\ results = ZeroResults(Len(testFiles)))
        /\ firstResults # <<>> =>
             /\ firstResults = ZeroResults(Len(testFiles))
             /\ isolatedDirsOf(firstResults) = <<>>
             /\ Len(failedTests) = Len(testFiles)
        /\ err # "failed to merge coverage directories"
        /\ \A k \in 1..Len(out) :
              out[k].kind = "Summary" =>
                  (out[k].passed = 0 /\ out[k].failed = Len(testFiles))

\* runCoverage has returned the failure of all three tests, none of which
\* was run
C29_Witness ==
    /\ cfg.Jobs <= 0
    /\ pc = "exit"
    /\ Len(firstResults) = 3
    /\ procs = {}
    /\ err = TestsFailedError(3)

----------------------------------------------------------------------------
(* runner.RunTests when a test process may never exit *)

\* RunTests alone (no rerun), where at most one of the test processes of the
\* run never exits
InitHang ==
    /\ cfg \in [Jobs : 0..MaxJobs, NoRerunFailed : {TRUE}, CoverDir : {"cover_db"}]
    /\ testFiles \in {SubSeq(TestFileNames, 1, n) : n \in 1..MaxHangTests}
    /\ hung \in {{}} \cup {{i} : i \in 0..(Len(testFiles) - 1)}
    /\ StartOfRunCoverage
    /\ IdleTap
    /\ IdleMerge
    /\ IdleSide

NextHang ==
    \/ StartRunTests
    \/ \E w \in Workers : WorkerTake(w)
    \/ \E w \in Workers : WorkerRun(w)
    \/ \E w \in Workers : WorkerLock(w)
    \/ \E w \in Workers : WorkerUpdate(w)
    \/ \E w \in Workers : WorkerExit(w)
    \/ MergeFails
    \/ AfterRunTests

\* the steps of goroutine w
Worker(w) ==
    \/ WorkerTake(w)
    \/ WorkerRun(w)
    \/ WorkerLock(w)
    \/ WorkerUpdate(w)
    \/ WorkerExit(w)

\* every goroutine that can take a step eventually takes one, and a test
\* process that is not hung eventually exits
FairHang ==
    /\ WF_vars(StartRunTests)
    /\ \A w \in Workers : WF_vars(Worker(w))
    /\ WF_vars(MergeFails \/ AfterRunTests)

SpecHang == InitHang /\ [][NextHang]_vars /\ FairHang

\* RunTests has returned its results to runCoverage
RunTestsReturned == pc \notin {"start", "RunTests"}

\* the result of test file k was stored
Recorded(k) == k <= Len(results) /\ results[k] # ZeroResult

\* one test process of the run never exits, and there are two workers or more
HungCase == cfg.Jobs >= 2 /\ hung # {}

\* what the run comes to: RunTests has returned when no process hangs, and
\* every test file but the hung one is recorded in the hung case
Settled ==
    /\ hung = {} => RunTestsReturned
    /\ HungCase => \A k \in 1..Len(testFiles) : (k - 1) \notin hung => Recorded(k)

\* C26: with J >= 2 and one test process that never exits, the result of
\* every other test file is eventually recorded and RunTests never returns;
\* when every test process exits, RunTests eventually returns.
C26_HungBlocksOnlyItsWorker ==
    /\ [](HungCase => ~RunTestsReturned)
    /\ <>Settled

\* the process of the first test hangs in one worker, and the other worker
\* has recorded the other test and is done
C26_Witness ==
    /\ cfg.Jobs = 2
    /\ Len(testFiles) = 2
    /\ hung = {0}
    /\ pc = "RunTests"
    /\ \E v, w \in Workers :
          wpc[v] = "run" /\ widx[v] = 0 /\ wpc[w] = "done"
    /\ Recorded(2)
    /\ ~Recorded(1)

----------------------------------------------------------------------------
(* runner.runSingleTest: the arguments of the perl process, with the scope *)
(* narrowing; moduleExists.  Paths are sequences of characters, and the    *)
(* comma-separated Devel::Cover options are a sequence of flag, value      *)
(* pairs in the order in which they are written.                           *)

CwdPath == <<"/", "w">>

\* filepath.Clean on the paths that occur: repeated slashes are one slash,
\* and a trailing slash is dropped
RECURSIVE Clean(_)
Clean(p) ==
    IF Len(p) <= 1 THEN p
    ELSE IF p[1] = "/" /\ p[2] = "/" THEN Clean(Tail(p))
    ELSE IF Len(p) = 2 /\ p[2] = "/" THEN <<p[1]>>
    ELSE <<p[1]>> \o Clean(Tail(p))

\* filepath.Join of two non-empty elements
JoinPath(a, b) == Clean(a \o <<"/">> \o b)

PathIsAbs(p) == p # <<>> /\ p[1] = "/"

AbsOf(p) == IF PathIsAbs(p) THEN p ELSE JoinPath(CwdPath, p)

\* os.Stat(path) succeeds: the path is a file that exists or a directory
\* that holds one
Stat(exists, path) ==
    \E q \in exists : q = path \/ HasPrefix(q, path \o <<"/">>)

\* strings.ReplaceAll(s, "::", "/")
RECURSIVE colonsToSlashes(_)
colonsToSlashes(s) ==
    IF s = <<>> THEN <<>>
    ELSE IF Len(s) >= 2 /\ s[1] = ":" /\ s[2] = ":"
         THEN <<"/">> \o colonsToSlashes(SubSeq(s, 3, Len(s)))
    ELSE <<s[1]>> \o colonsToSlashes(Tail(s))

TrimSuffix(s, suffix) ==
    IF HasSuffix(s, suffix) THEN SubSeq(s, 1, Len(s) - Len(suffix)) ELSE s

DotPm == <<".", "p", "m">>

LibDir == <<"l", "i", "b">>

RECURSIVE existsInSourceDirs(_, _, _, _)
existsInSourceDirs(moduleFile, cwd, sourceDirs, exists) ==
    IF sourceDirs = <<>> THEN FALSE
    ELSE LET src == Head(sourceDirs)
             srcPath == IF PathIsAbs(src) THEN JoinPath(src, moduleFile)
                        ELSE JoinPath(JoinPath(cwd, src), moduleFile)
         IN \/ Stat(exists, srcPath)
            \/ existsInSourceDirs(moduleFile, cwd, Tail(sourceDirs), exists)

\* moduleExists, on the files that exist
moduleExists(moduleFile, cwd, sourceDirs, exists) ==
    \/ Stat(exists, JoinPath(cwd, moduleFile))
    \/ Stat(exists, JoinPath(JoinPath(cwd, LibDir), moduleFile))
    \/ existsInSourceDirs(moduleFile, cwd, sourceDirs, exists)

\* one ",flag,value" of the Devel::Cover options
Opt(flag, value) == [flag |-> flag, value |-> value]

\* a plausible slip writes the -select before the -ignore
selectThenIgnore(moduleFile) ==
    <<Opt("-select", TrimSuffix(moduleFile, DotPm)),
      Opt("-ignore", LibDir \o <<"/">>)>>

\* ",-ignore,lib/,-select,%s"
ignoreThenSelect(moduleFile) ==
    <<Opt("-ignore", LibDir \o <<"/">>),
      Opt("-select", TrimSuffix(moduleFile, DotPm))>>

\* coverOpts of runSingleTest
coverOpts(r, testFile, absCoverDir, exists) ==
    LET base == <<Opt("-db", absCoverDir), Opt("-silent", <<"1">>),
                  Opt("-ignore", <<"^", "t", "/">>),
                  Opt("-ignore", <<"\\", ".", "t", "$">>)>>
        incs == [k \in 1..Len(r.SourceDirs) |-> Opt("+inc", AbsOf(r.SourceDirs[k]))]
        moduleName == extractModuleFromTestFile(testFile)
        moduleFile == colonsToSlashes(moduleName) \o DotPm
    IN base \o incs \o
       (IF ~r.NoSelect /\ moduleName # <<>>
           /\ moduleExists(moduleFile, CwdPath, r.SourceDirs, exists)
        THEN ignoreThenSelect(moduleFile) ELSE <<>>)

\* args of runSingleTest (r.IncludePaths is empty)
runSingleTestArgs(r, testFile, withCoverage, coverDir, exists) ==
    LET absCoverDir == AbsOf(IF coverDir = <<>> THEN r.CoverDir ELSE coverDir)
    IN (IF Stat(exists, JoinPath(CwdPath, LibDir))
        THEN <<[kind |-> "-I", path |-> JoinPath(CwdPath, LibDir)]>> ELSE <<>>)
       \o (IF withCoverage
           THEN <<[kind |-> "-MDevel::Cover=",
                   opts |-> coverOpts(r, testFile, absCoverDir, exists)]>>
           ELSE <<>>)
       \o <<[kind |-> "test", path |-> AbsOf(testFile)]>>

\* test files: two whose names give a module, one of them with a
\* specifier, one with a module of two parts, and one that gives none
SelectTests ==
    {<<"t", "/", "A", ".", "t">>, <<"A", "_", "x", ".", "t">>,
     <<"t", "/", "A", "-", "b", ".", "t">>, <<"t", "/", "b", ".", "t">>}

SourceDirLists ==
    {<<>>, <<<<"s", "r", "c">>>>, <<<<"/", "o", "p", "t">>>>,
     <<<<"s", "r", "c">>, <<"/", "o", "p", "t">>>>}

\* where a module file may be: the working directory, lib, the two source
\* roots, and a directory that is none of them
CandidateFiles ==
    {root \o <<"/">> \o mf :
        root \in {CwdPath, CwdPath \o <<"/">> \o LibDir,
                  CwdPath \o <<"/", "s", "r", "c">>, <<"/", "o", "p", "t">>,
                  CwdPath \o <<"/", "x">>},
        mf \in {<<"A", ".", "p", "m">>, <<"A", "/", "b", ".", "p", "m">>}}

InitSelect ==
    /\ selIn \in [r : [CoverDir : {<<"c", "o", "v">>}, NoSelect : BOOLEAN,
                        SourceDirs : SourceDirLists],
                   testFile : SelectTests,
                   withCoverage : BOOLEAN,
                   exists : {S \in SUBSET CandidateFiles :
                                Cardinality(S) <= MaxExisting}]
    /\ selArgs = <<>>
    /\ IdleRunner
    /\ IdleTap
    /\ IdleMerge
    /\ IdleDisk
    /\ IdlePrint
    /\ IdleModes
    /\ IdleModule
    /\ IdleFormat

\* runSingleTest up to exec.Command
BuildArgs ==
    /\ selArgs = <<>>
    /\ selArgs' = <<runSingleTestArgs(selIn.r, selIn.testFile, selIn.withCoverage,
                                      IF selIn.withCoverage
                                      THEN selIn.r.CoverDir \o <<"_", "0">>
                                      ELSE <<>>,
                                      selIn.exists)>>
    /\ UNCHANGED <<selIn, runnerVars, tapVars, mergeVars, diskVars, printed,
                   modesVars, moduleVars, formatVars>>

NextSelect == BuildArgs

SpecSelect == InitSelect /\ [][NextSelect]_vars

\* the Devel::Cover options among the arguments built, in order
OptsBuilt ==
    LET covers == SelectSeq(selArgs[1], LAMBDA a : a.kind = "-MDevel::Cover=")
    IN IF covers = <<>> THEN <<>> ELSE covers[1].opts

\* the module name derived from the test file, as a path without ".pm"
ModulePath == colonsToSlashes(extractModuleFromTestFile(selIn.testFile))

\* the directories in which the module's file is looked for
SearchRoots ==
    {CwdPath, CwdPath \o <<"/">> \o LibDir}
        \cup {AbsOf(selIn.r.SourceDirs[k]) : k \in 1..Len(selIn.r.SourceDirs)}

ShouldNarrow ==
    /\ ~selIn.r.NoSelect
    /\ extractModuleFromTestFile(selIn.testFile) # <<>>
    /\ \E root \in SearchRoots :
          (root \o <<"/">> \o ModulePath \o DotPm) \in selIn.exists

IsIgnoreLib(o) == o = Opt("-ignore", <<"l", "i", "b", "/">>)

IsSelect(o) == o.flag = "-select"

\* C27: an instrumented run carries a -select directive, and the directive
\* -ignore,lib/, iff no-select is off, the test file gives a module name
\* and the module's file exists under the working directory, its lib
\* directory or a source root; when it does, it carries one of each, the
\* -select names the module and the -ignore,lib/ comes before it; an
\* uninstrumented run carries no Devel::Cover option at all.
C27_ScopeNarrowing ==
    selArgs # <<>> =>
        LET opts == OptsBuilt
            ignores == {k \in 1..Len(opts) : IsIgnoreLib(opts[k])}
            selects == {k \in 1..Len(opts) : IsSelect(opts[k])}
        IN /\ ~selIn.withCoverage =>
                 (opts = <<>> /\ \A k \in 1..Len(selArgs[1]) :
                                    selArgs[1][k].kind \in {"-I", "test"})
           /\ selIn.withCoverage =>
                 /\ (selects # {}) <=> ShouldNarrow
                 /\ (ignores # {}) <=> ShouldNarrow
                 /\ ShouldNarrow =>
                       /\ Cardinality(selects) = 1 /\ Cardinality(ignores) = 1
                       /\ \A i \in ignores, j \in selects :
                             i < j /\ opts[j].value = ModulePath

\* the instrumented run of t/A-b.t was narrowed to A/b, whose file is under
\* the second source root only
C27_Witness ==
    /\ selArgs # <<>>
    /\ selIn.withCoverage
    /\ selIn.testFile = <<"t", "/", "A", "-", "b", ".", "t">>
    /\ selIn.exists = {<<"/", "o", "p", "t", "/", "A", "/", "b", ".", "p", "m">>}
    /\ Len(selIn.r.SourceDirs) = 2
    /\ \E k \in 1..Len(OptsBuilt) :
          OptsBuilt[k] = Opt("-select", <<"A", "/", "b">>)


----------------------------------------------------------------------------
(* coverage.ParseCoverageDB: the choice of the merge path, with           *)
(* detectJSONFormat, convertToJSON and parseAllRuns                        *)

MaxFormatDirs == 2

\* a file of a run directory with its encoding: first is its first byte
\* ("" for an empty file), native says whether the reader of Devel::Cover
\* decodes it.  Runs of a file in a native encoding are the records it
\* holds, which json.Unmarshal does not reach (valid is FALSE)
EncodedFile(name, readable, first, valid, native, runs) ==
    [Name |-> name, IsDir |-> FALSE, readable |-> readable, valid |-> valid,
     Runs |-> runs, first |-> first, native |-> native]

\* detectJSONFormat, the inner loop: the first byte of the first cover file
\* of a run directory that opens and gives a byte
RECURSIVE firstByteOf(_)
firstByteOf(files) ==
    IF files = <<>> THEN <<>>
    ELSE LET f == Head(files) IN
         IF isDataFile(f) /\ f.readable /\ f.first # "" THEN <<f.first>>
         ELSE firstByteOf(Tail(files))

\* a plausible slip decides per run: JSON if some run directory starts with
\* a JSON file
detectAny(entries) ==
    \E k \in 1..Len(entries) :
        /\ entries[k].IsDir /\ entries[k].readable
        /\ firstByteOf(entries[k].files) = <<"{">>

\* detectJSONFormat, the outer loop
RECURSIVE detectIn(_)
detectIn(entries) ==
    IF entries = <<>> THEN FALSE
    ELSE LET d == Head(entries)
             b == IF d.IsDir /\ d.readable THEN firstByteOf(d.files) ELSE <<>>
         IN IF b = <<>> THEN detectIn(Tail(entries)) ELSE b[1] = "{"

detectJSONFormat(dir) == dir.readable /\ detectIn(dir.entries)

\* convertToJSON, convert_file of the script
convert_file(f) ==
    IF \/ f.IsDir
       \/ HasSuffix(f.Name, <<".", "l", "o", "c", "k">>)
       \/ ~f.readable
       \/ f.first = "{"
       \/ ~f.native
    THEN f
    ELSE [f EXCEPT !.first = "{", !.valid = TRUE]

\* convertToJSON, the loop of the script over the run directories
convertedRuns(dir) ==
    IF ~dir.readable THEN dir
    ELSE [dir EXCEPT !.entries =
            [k \in 1..Len(dir.entries) |->
                LET d == dir.entries[k] IN
                IF d.IsDir /\ d.readable
                THEN [d EXCEPT !.files =
                        [j \in 1..Len(d.files) |-> convert_file(d.files[j])]]
                ELSE d]]

\* a plausible slip converts whenever JSON processing is forced
alwaysConvert(jsonMerge, detected) == jsonMerge

\* if jsonMerge && !isJSON
needsConversion(jsonMerge, detected) == jsonMerge /\ ~detected

CoverName13 == <<"c", "o", "v", "e", "r", ".", "1", "3">>

\* entries of the runs directory: two runs in JSON, a run in a native
\* encoding, a run whose first cover file is empty and whose second is JSON,
\* a run whose cover file cannot be opened, a run whose JSON is truncated, a
\* run whose native file is damaged after a lock file, a stray file
FormatRunDirs ==
    {Dir(TRUE, TRUE, <<EncodedFile(CoverName, TRUE, "{", TRUE, FALSE,
                                   <<<<CountA1>>>>)>>),
     Dir(TRUE, TRUE, <<EncodedFile(CoverName, TRUE, "{", TRUE, FALSE,
                                   <<<<CountB2>>>>)>>),
     Dir(TRUE, TRUE, <<EncodedFile(CoverName, TRUE, "p", FALSE, TRUE,
                                   <<<<CountA2, CountB1>>>>)>>),
     Dir(TRUE, TRUE, <<EncodedFile(CoverName13, TRUE, "", FALSE, FALSE, <<>>),
                       EncodedFile(CoverName, TRUE, "{", TRUE, FALSE,
                                   <<<<CountA3>>>>)>>),
     Dir(TRUE, TRUE, <<EncodedFile(CoverName, FALSE, "p", FALSE, TRUE,
                                   <<<<CountB1>>>>)>>),
     Dir(TRUE, TRUE, <<EncodedFile(CoverName, TRUE, "{", FALSE, FALSE, <<>>)>>),
     Dir(TRUE, TRUE,
         <<EncodedFile(CoverName \o <<".", "l", "o", "c", "k">>, TRUE, "{",
                       TRUE, FALSE, <<<<CountB1>>>>),
           EncodedFile(CoverName, TRUE, "p", FALSE, FALSE, <<>>)>>),
     Dir(FALSE, TRUE, <<>>)}

FormatRunsDirs ==
    {NoDir} \cup
    {[readable |-> TRUE, entries |-> es] :
        es \in UNION {[1..n -> FormatRunDirs] : n \in 0..MaxFormatDirs}}

\* what the merge script does: its exit status, and whether its standard
\* output is empty, decodes as JSON, and the data it then holds
PerlRun(exit, empty, valid, d) ==
    [exit |-> exit, empty |-> empty, valid |-> valid, data |-> d]

PerlRuns ==
    {PerlRun(1, TRUE, FALSE, EmptyData),
     PerlRun(0, TRUE, FALSE, EmptyData),
     PerlRun(0, FALSE, FALSE, EmptyData),
     PerlRun(0, FALSE, TRUE, EmptyData),
     PerlRun(0, FALSE, TRUE,
             mergeRunsGo(<<decodeRun(<<CountA2, CountB1>>)>>, NoStructures))}

InitFormat ==
    /\ pdbIn \in [jsonMerge : BOOLEAN, coverDir : BOOLEAN, runs : BOOLEAN,
                  convertExit : 0..1, perl : PerlRuns]
    /\ pdbIn.runs => pdbIn.coverDir
    /\ runsDir \in (IF pdbIn.runs THEN FormatRunsDirs ELSE {NoDir})
    /\ structDir = NoDir
    /\ isJSON = FALSE
    /\ execs = <<>>
    /\ allRuns = <<>>
    /\ structures = <<>>
    /\ mpc = "open"
    /\ data = EmptyData
    /\ report = EmptyReport
    /\ normCount = 0
    /\ IdleRunner
    /\ IdleTap
    /\ IdlePrint
    /\ IdleModes
    /\ IdleModule
    /\ IdleSelect

\* ParseCoverageDB from its entry to the choice of the parser: "disk" is the
\* call of parseAllRunsJSON, "perl" the call of parseAllRuns
DetectFormat ==
    /\ mpc = "open"
    /\ IF ~pdbIn.coverDir \/ ~pdbIn.runs
       THEN /\ mpc' = "failed"
            /\ UNCHANGED <<isJSON, execs, runsDir>>
       ELSE LET detected == detectJSONFormat(runsDir) IN
            IF needsConversion(pdbIn.jsonMerge, detected)
            THEN /\ execs' = Append(execs, "convertToJSON")
                 /\ IF pdbIn.convertExit # 0
                    THEN /\ mpc' = "failed"
                         /\ isJSON' = detected
                         /\ runsDir' = runsDir
                    ELSE /\ mpc' = "disk"
                         /\ isJSON' = TRUE
                         /\ runsDir' = convertedRuns(runsDir)
            ELSE /\ isJSON' = detected
                 /\ mpc' = (IF detected THEN "disk" ELSE "perl")
                 /\ UNCHANGED <<execs, runsDir>>
    /\ UNCHANGED <<pdbIn, structDir, allRuns, structures, data, report,
                   normCount, runnerVars, tapVars, printed, modesVars,
                   moduleVars, selectVars>>

\* parseAllRuns, and ParseCoverageDB from its return to its own
ParseAllRuns ==
    /\ mpc = "perl"
    /\ execs' = Append(execs, "parseAllRuns")
    /\ LET p == pdbIn.perl IN
       IF p.exit # 0 \/ (~p.empty /\ ~p.valid)
       THEN /\ mpc' = "failed"
            /\ UNCHANGED <<data, report>>
       ELSE LET d == IF p.empty THEN EmptyData ELSE p.data
            IN /\ data' = d
               /\ report' = calculateSummary(buildReport(d))
               /\ mpc' = "parsed"
    /\ UNCHANGED <<pdbIn, isJSON, diskVars, allRuns, structures, normCount,
                   runnerVars, tapVars, printed, modesVars, moduleVars,
                   selectVars>>

NextFormat ==
    DetectFormat \/ ParseAllRunsJSON \/ ParseCoverageDB \/ ParseAllRuns

SpecFormat == InitFormat /\ [][NextFormat]_vars

\* the cover files of the runs directory that open and give a byte, as
\* (run directory, file) positions
Sniffable ==
    {kj \in UNION {{<<k, j>> : j \in 1..Len(runsDir.entries[k].files)} :
                      k \in 1..Len(runsDir.entries)} :
        LET d == runsDir.entries[kj[1]]
            f == d.files[kj[2]]
        IN /\ d.IsDir /\ d.readable
           /\ isDataFile(f) /\ f.readable /\ f.first # ""}

Before(a, b) == a[1] < b[1] \/ (a[1] = b[1] /\ a[2] < b[2])

\* the first sniffable file starts with "{"
FirstFileIsJSON ==
    /\ runsDir.readable
    /\ \E a \in Sniffable :
          /\ \A b \in Sniffable : b = a \/ Before(a, b)
          /\ runsDir.entries[a[1]].files[a[2]].first = "{"

DatabaseFound == pdbIn.coverDir /\ pdbIn.runs

PathStep ==
    /\ mpc = "open" /\ ~DatabaseFound =>
          mpc' = "failed" /\ execs' = <<>> /\ report' = EmptyReport
    /\ mpc = "open" /\ DatabaseFound /\ FirstFileIsJSON =>
          mpc' = "disk" /\ execs' = <<>>
    /\ mpc = "open" /\ DatabaseFound /\ ~FirstFileIsJSON /\ ~pdbIn.jsonMerge =>
          mpc' = "perl" /\ execs' = <<>>
    /\ mpc = "open" /\ DatabaseFound /\ ~FirstFileIsJSON /\ pdbIn.jsonMerge =>
          /\ execs' = <<"convertToJSON">>
          /\ IF pdbIn.convertExit = 0 THEN mpc' = "disk"
             ELSE mpc' = "failed" /\ report' = EmptyReport
    /\ mpc \in {"disk", "input"} => execs' = execs /\ mpc' # "perl"
    /\ mpc = "perl" =>
          execs' = <<"parseAllRuns">> /\ mpc' \in {"parsed", "failed"}
    /\ mpc \in {"parsed", "failed"} => UNCHANGED vars

\* C28: with both directories present, a database detected as JSON is
\* parsed and merged in-process without running any external command; one
\* detected as non-JSON is merged by exactly one run of the external merge,
\* unless JSON processing is forced, in which case the external conversion
\* runs first and the merge is in-process; a failed conversion, a missing
\* coverage directory or a missing runs directory ends in an error with no
\* report.
C28_MergePathSelection == [][PathStep]_vars

\* a database detected as non-JSON was converted and then merged in-process
C28_Witness ==
    /\ mpc = "parsed"
    /\ pdbIn.jsonMerge
    /\ execs = <<"convertToJSON">>
    /\ Len(data.Files) > 0

\* the records of the run directories from k on whose data file is JSON and
\* was parsed
RECURSIVE JSONRunsFrom(_)
JSONRunsFrom(k) ==
    IF k > Len(runsDir.entries) THEN <<>>
    ELSE LET d == runsDir.entries[k]
             js == {j \in 1..Len(d.files) :
                       /\ IsParsedDataFile(d, j)
                       /\ d.files[j].first = "{"}
         IN (IF js = {} THEN <<>>
             ELSE decodeFile(d.files[CHOOSE j \in js : TRUE]))
            \o JSONRunsFrom(k + 1)

\* run directory k holds records in a native encoding only
IsNativeRun(k) ==
    LET d == runsDir.entries[k] IN
    /\ d.IsDir /\ d.readable
    /\ \E j \in 1..Len(d.files) :
          /\ isDataFile(d.files[j])
          /\ d.files[j].first \notin {"", "{"}
          /\ d.files[j].Runs # <<>>
    /\ \A j \in 1..Len(d.files) : d.files[j].first # "{"

\* C30: the verdict is that of the first cover file that opens and gives a
\* byte (JSON iff that byte is "{", non-JSON when there is no such file);
\* every run is processed under it, so an in-process merge holds the
\* records of the JSON runs only, and a run in another encoding adds
\* nothing to it and raises no error.
C30_OneVerdictForTheDatabase ==
    /\ mpc # "open" /\ DatabaseFound /\ execs = <<>> =>
          /\ isJSON = FirstFileIsJSON
          /\ mpc \in {"disk", "input"} => isJSON
          /\ mpc = "perl" => ~isJSON
    /\ mpc = "parsed" /\ isJSON =>
          data = mergeRunsGo(JSONRunsFrom(1), structures)
    /\ mpc = "failed" =>
          \/ ~DatabaseFound
          \/ ~runsDir.readable
          \/ execs = <<"convertToJSON">> /\ pdbIn.convertExit # 0
          \/ execs = <<"parseAllRuns">>

\* a database whose first run is JSON and whose second run is in a native
\* encoding was merged in-process, and the merge holds the first run only
C30_Witness ==
    /\ mpc = "parsed"
    /\ execs = <<>>
    /\ isJSON
    /\ Len(runsDir.entries) = 2
    /\ ~IsNativeRun(1)
    /\ IsNativeRun(2)
    /\ Len(JSONRunsFrom(1)) = 1
    /\ Len(data.Files) = 1

====
